---- MODULE Spec2Model ----
(***************************************************************************)
(* Model of the gitcraft sync engine: ContinuousSyncService (scheduler),   *)
(* DocumentationUpdater.checkForUpdates (one cycle for one repository),    *)
(* RepositoryStore (in-memory index) and the POST /sync/analyze route.     *)
(* Every await of the JavaScript source is a separate step of a task, so   *)
(* that other callbacks can interleave exactly where the event loop lets   *)
(* them.                                                                   *)
(***************************************************************************)
EXTENDS Integers, Sequences, FiniteSets, TLC

\* ---------------------------------------------------------------- bounds
MaxPR == 2          \* PR numbers the provider can hold are 1..MaxPR
MaxNow == 6         \* the clock runs from 1 to MaxNow (minutes)
MaxTasks == 2       \* async invocations that can be in flight together
MaxCommits == 1     \* direct commits a listing can return
MaxDocs == 2        \* documents the workspace creates (ids 1..MaxDocs)
MaxFollowUps == 1   \* follow-up tasks an analysis can carry
MaxId == 2          \* collection ids a reply can carry are 1..MaxId
MaxQuestions == 1   \* open questions a repository analysis can carry
MaxBody == 5        \* characters of a reply text after its opening
MaxBlocks == 3      \* blocks of a main document before an update

\* ------------------------------------------------------ program constants
syncInterval == 5            \* minutes
minTimeBetweenSyncs == 2     \* minutes

\* JavaScript null / undefined for numeric and date fields.  Every number
\* the program stores (PR number, epoch time, document id) is >= 1.
Null == -1
Undef == -2
Truthy(x) == x > 0

\* the repositories of the model, in the order the store iterates them
RepoOrder == <<"o/r">>
Repos == {RepoOrder[i] : i \in 1..Len(RepoOrder)}
CollectionKeys == {"releaseNotes", "adrs", "engineeringTasks", "docHistory"}
TaskIds == 1..MaxTasks

VARIABLES
    now,                \* Date.now(), in minutes
    isRunning,          \* ContinuousSyncService.isRunning
    intervalId,         \* ContinuousSyncService.intervalId is not null
    timers,             \* runtime: the setInterval timers created and not cleared
    nextFire,           \* time at which the installed timer fires next
    repoStoreAttached,  \* ContinuousSyncService.repoStore is not null
    repoConfigStore,    \* Map repoFullName -> config, as its key sequence
    lastSyncTimes,      \* Map repoFullName -> Date.now() of the last sync
    memoryStore,        \* RepositoryStore.memoryStore
    remoteDoc,          \* workspace: id of the "<owner>-<repo>-docs" document, 0 if none
    nextDocId,          \* workspace: id the next documents_create returns
    craftState,         \* workspace: the "_agent_state - <repo>" document
    merged,             \* provider: numbers of the merged pull requests
    storageFile,        \* RepositoryStore: the records in the JSON file at storagePath
    commits,            \* provider: the dates of the direct commits on the branch
    tasks,              \* in-flight async invocations
    hist                \* observations of the last finished step

vars == <<now, isRunning, intervalId, timers, nextFire, repoStoreAttached,
          repoConfigStore, lastSyncTimes, memoryStore, remoteDoc,
          nextDocId, craftState, merged, storageFile, commits, tasks, hist>>

\* ------------------------------------------------------------- helpers
RECURSIVE SeqMax(_)
SeqMax(s) == IF Len(s) = 0 THEN 0
             ELSE LET m == SeqMax(Tail(s)) IN IF Head(s) > m THEN Head(s) ELSE m

\* the filter forgotten: every listed PR counts as new
FilterKeepsAll(s, lastPR) == s

RECURSIVE Filter(_, _)
\* prs.filter(pr => pr.number > lastPR), order of the listing preserved
Filter(s, lastPR) ==
    IF Len(s) = 0 THEN <<>>
    ELSE IF Head(s) > lastPR THEN <<Head(s)>> \o Filter(Tail(s), lastPR)
         ELSE Filter(Tail(s), lastPR)

Range(s) == {s[i] : i \in 1..Len(s)}

\* every order in which the provider can list a set of PR numbers
\* (octokit.pulls.list sorted by "updated", which is unrelated to number)
Listings(S) ==
    {s \in [1..Cardinality(S) -> S] : Range(s) = S}

RECURSIVE Remove(_, _)
\* Map.delete(key) on the key sequence
Remove(s, r) ==
    IF Len(s) = 0 THEN <<>>
    ELSE IF Head(s) = r THEN Remove(Tail(s), r)
         ELSE <<Head(s)>> \o Remove(Tail(s), r)

\* Map.set(key, ...) on the key sequence: an existing key keeps its place
MapSet(s, r) == IF r \in Range(s) THEN s ELSE Append(s, r)

\* a || b of JavaScript on numbers
Or(a, b) == IF Truthy(a) THEN a ELSE b

\* a workspace call as the pair of its tool and the collection it is for
Call(tool, c) == <<tool, c>>

\* ------------------------------------------------------ webhook deliveries
\* the keys a sender may sign with; 0 stands for no key at all
Keys == 1..2

\* the raw bodies GitHub events arrive with: a pull_request event closing
\* PR number (merged or not), or a push to the main branch
Bodies ==
    [event : {"pull_request"}, merged : BOOLEAN, number : 1..MaxPR]
    \cup {[event |-> "push", merged |-> FALSE, number |-> 0]}

\* 'sha256=' + createHmac('sha256', secret).update(payload).digest('hex'):
\* a value determined by the payload and the key, different for different
\* payloads or keys
Hmac(payload, secret) == [body |-> payload, key |-> secret]

\* no X-Hub-Signature-256 header
NoSignature == [body |-> [event |-> "none", merged |-> FALSE, number |-> 0], key |-> 0]

\* a delivery: the body, the header, and GITHUB_WEBHOOK_SECRET (0: not set)
NoHook == [body |-> NoSignature.body, signature |-> NoSignature, secret |-> 0]

\* --------------------------------------------------- oracle replies
\* confidences in tenths: 0.5 is 5, 1.0 is 10
Half == 5
One == 10

\* the fields of a parsed reply the defaults look at: Undef when the reply
\* does not have the field, 1 when it does; confidence in tenths
\* replyConfidence is not a field of the program: it remembers the
\* confidence the reply came with
NoParsed == [overview |-> Undef, architecture |-> Undef, openQuestions |-> Undef,
             engineeringTasks |-> Undef, confidence |-> Undef,
             replyConfidence |-> Undef]

\* the objects JSON.parse can return for a reply
ParsedReplies ==
    {[overview |-> o, architecture |-> a, openQuestions |-> q,
      engineeringTasks |-> e, confidence |-> c, replyConfidence |-> c] :
        o \in {Undef, 1}, a \in {Undef, 1}, q \in {Undef, 1}, e \in {Undef, 1},
        c \in {Undef, 0, 3, One, One + Half}}

\* "Return fallback analysis" of parseAnalysisResponse's catch
FallbackParsed ==
    [overview |-> 1, architecture |-> 1, openQuestions |-> 1,
     engineeringTasks |-> 1, confidence |-> 0, replyConfidence |-> Undef]


\* A session of sessionStore: the provider's access token and the user it
\* was issued to (0: none).  The record of a connection keeps both, as
\* githubToken and user.
NoSession == [accessToken |-> 0, user |-> 0]

\* the sessions GET /auth/github/callback creates: two logins of one user
\* (every login gets a new token) and a login of another user
Sessions ==
    {[accessToken |-> 1, user |-> 1], [accessToken |-> 2, user |-> 1],
     [accessToken |-> 3, user |-> 2]}

\* the session of the user whose connections the store is loaded with
FirstSession == [accessToken |-> 1, user |-> 1]

\* -------------------------------------------------------- store records
\* connectedWith is not a field of the program: it remembers the document
\* id that the analyze call which stored the record answered with.
\* autoSyncEnabled is the flag of the connection record (default true); the
\* sources never write it.
NoRecord ==
    [present |-> FALSE, documentId |-> Undef, collectionIds |-> {},
     lastProcessedPR |-> Undef, lastSyncedAt |-> Undef, connectedWith |-> 0,
     autoSyncEnabled |-> TRUE, githubToken |-> 0, user |-> 0]

\* a row as RepositoryStore.initialize() loads it from the database
LoadedRow ==
    [present |-> TRUE, documentId |-> 1, collectionIds |-> CollectionKeys,
     lastProcessedPR |-> Null, lastSyncedAt |-> Null, connectedWith |-> 1,
     autoSyncEnabled |-> TRUE, githubToken |-> 1, user |-> 1]

\* default state returned by getDocumentationState when no state document
NoCraftState == [exists |-> FALSE, lastProcessedPR |-> Null, lastSync |-> Null]

EmptySyncState ==
    [lastSyncedAt |-> Undef, lastProcessedPR |-> Undef,
     documentId |-> Undef, collectionIds |-> {}]

\* the analysis analyzePRChanges returns when the oracle call throws or its
\* reply holds no JSON; it has no breakingChanges field (undefined, here
\* FALSE: "=== true" and truthiness both fail on it)
FallbackAnalysis ==
    [changeType |-> "unknown", impactLevel |-> "minor", publicAPIChanges |-> FALSE,
     breakingChanges |-> FALSE, requiresADR |-> FALSE, followUpTasks |-> 0,
     degraded |-> TRUE]

\* the analyses the oracle can reply with, after the schema of its prompt
Analyses ==
    [changeType : {"feature", "bugfix"}, impactLevel : {"major", "minor", "patch"},
     publicAPIChanges : BOOLEAN, breakingChanges : BOOLEAN, requiresADR : BOOLEAN,
     followUpTasks : 0..MaxFollowUps, degraded : {FALSE}]

\* processing of one PR: the path taken, the analysis, the targeted
\* mutations attempted so far (in order), the items inserted per collection
NoUpd ==
    [path |-> "none", analysis |-> FallbackAnalysis, attempted |-> <<>>,
     items |-> [c \in CollectionKeys |-> 0], mainDoc |-> FALSE]

\* a collections_create reply as callTool returns it: a JSON object with
\* any of the fields the extraction looks at, an array, or a string.  A
\* field is absent (Undef), empty (Null stands for null and "") or an id.
NoReply ==
    [kind |-> "none", collectionBlockId |-> Undef, collections0 |-> Undef,
     id |-> Undef, first |-> Undef, result |-> Undef, collection |-> Undef,
     text |-> Undef]

FieldValues == {Undef, Null} \cup (1..MaxId)

Replies ==
    {[NoReply EXCEPT !.kind = "object", !.collectionBlockId = a, !.collections0 = b,
                     !.id = c, !.result = d, !.collection = e] :
        a \in FieldValues, b \in FieldValues, c \in FieldValues,
        d \in FieldValues, e \in FieldValues}
    \cup {[NoReply EXCEPT !.kind = "array", !.first = a] : a \in FieldValues}
    \cup {[NoReply EXCEPT !.kind = "string", !.text = a] : a \in 1..MaxId}

IdleTask ==
    [kind |-> "none", pc |-> "idle", repos |-> <<>>, i |-> 0, repo |-> "o/r",
     syncState |-> EmptySyncState, lastPR |-> 0, lastSync |-> Null,
     newPRs |-> <<>>, k |-> 0, processedPRs |-> <<>>, failedPRs |-> {},
     commitFailed |-> FALSE, oracleCalls |-> 0, commitProc |-> 0,
     overlapped |-> FALSE, pending |-> NoRecord,
     existing |-> NoRecord, created |-> 0,
     upd |-> NoUpd, initialized |-> FALSE, startedAt |-> 0,
     reply |-> NoReply, extracted |-> Undef,
     calls |-> <<>>, got |-> [c \in CollectionKeys |-> Undef],
     openQuestions |-> 0, ci |-> 0, hook |-> NoHook,
     jsonStr |-> <<>>, parsed |-> NoParsed,
     doc |-> <<>>, blocks |-> <<>>, failed |-> FALSE, session |-> NoSession,
     listed |-> {}]

\* hist: what the last step did (op), the task as it was when the step
\* finished its unit of work, and the store record the step found
NoHist == [op |-> "none", task |-> IdleTask, before |-> NoRecord, docId |-> 0,
           pr |-> 0, date |-> 0]

MutationOrder == <<"docHistory", "releaseNotes", "adrs", "engineeringTasks", "mainDoc">>
MutationPcs == Range(MutationOrder)
CheckPcs ==
    {"getState", "listPRs", "prLoop", "commits", "commitWork", "prAnalyze", "prLegacy"}
        \cup MutationPcs
InCheck(t) == tasks[t].pc \in CheckPcs
InFlight(r) == {t \in TaskIds : InCheck(t) /\ tasks[t].repo = r}
\* a cycle for r lasts from the read of the sync state to the cursor write
InCycle(t, r) == tasks[t].pc \in CheckPcs \cup {"cursorWrite"} /\ tasks[t].repo = r
Free == {t \in TaskIds : tasks[t].kind = "none"}
FirstFree == CHOOSE t \in Free : \A u \in Free : t <= u

\* ----------------------------------------------------- task bookkeeping
\* start of a cycle for rec.repo in slot t: every cycle of the same
\* repository that is in flight at that moment overlaps with it
EnterCycle(t, rec) ==
    [u \in TaskIds |->
        IF u = t
        THEN [rec EXCEPT !.overlapped = \E v \in TaskIds \ {t} : InCycle(v, rec.repo)]
        ELSE IF InCycle(u, rec.repo)
             THEN [tasks[u] EXCEPT !.overlapped = TRUE]
             ELSE tasks[u]]

\* runSyncCycle, "Get sync state from database"
ReadSyncState(r) ==
    IF repoStoreAttached /\ memoryStore[r].present
    THEN [lastSyncedAt |-> memoryStore[r].lastSyncedAt,
          lastProcessedPR |-> memoryStore[r].lastProcessedPR,
          documentId |-> memoryStore[r].documentId,
          collectionIds |-> memoryStore[r].collectionIds]
    ELSE EmptySyncState

\* checkForUpdates up to its first await
CheckStart(tk, r, ss) ==
    [tk EXCEPT !.repo = r, !.syncState = ss,
               !.pc = IF ss.lastProcessedPR = Undef /\ ss.lastSyncedAt = Undef
                      THEN "getState" ELSE "listPRs",
               !.lastPR = Or(ss.lastProcessedPR, 0),
               !.lastSync = ss.lastSyncedAt,
               !.newPRs = <<>>, !.k = 0, !.processedPRs = <<>>,
               !.failedPRs = {}, !.commitFailed = FALSE,
               !.oracleCalls = 0, !.commitProc = 0,
               !.overlapped = FALSE, !.pending = NoRecord]

RECURSIVE NextVisit(_, _, _)
\* runSyncCycle loop head: skip the repositories synced less than
\* minTimeBetweenSyncs ago, stop at the first one to visit
NextVisit(rs, j, lst) ==
    IF j > Len(rs) THEN j
    ELSE IF Truthy(lst[rs[j]]) /\ now - lst[rs[j]] < minTimeBetweenSyncs
         THEN NextVisit(rs, j + 1, lst)
         ELSE j

\* the loop of runSyncCycle from index j0 to its next await (documentExists);
\* startedAt remembers when the visit of the repository began
Continue(tk, j0, lst) ==
    LET j == NextVisit(tk.repos, j0, lst) IN
    IF j > Len(tk.repos) THEN IdleTask
    ELSE [IdleTask EXCEPT !.kind = "timer", !.repos = tk.repos, !.i = j,
                          !.repo = tk.repos[j], !.pc = "docCheck",
                          !.startedAt = now]

\* the loop given up after the repository at hand
FinishAborts(tk, lst) == IdleTask

\* what a task does once the cycle of its current repository is over
Finish(tk, lst) ==
    IF tk.kind = "timer" THEN Continue(tk, tk.i + 1, lst) ELSE IdleTask

\* checkForUpdates, "highestPR"
HighestPR(tk) ==
    IF Len(tk.processedPRs) > 0 THEN SeqMax(tk.processedPRs) ELSE tk.lastPR

\* --------------------------------------------------------- the scheduler
\* runSyncCycle up to its first await, in a free slot
RunSyncCycle ==
    IF Len(repoConfigStore) = 0
    THEN tasks' = tasks
    ELSE /\ Free # {}
         /\ tasks' = [tasks EXCEPT ![FirstFree] =
                Continue([IdleTask EXCEPT !.repos = repoConfigStore], 1, lastSyncTimes)]

\* start() going on whether or not the service is running
StartGuardNone(running) == TRUE

\* start(), "if (this.isRunning) return"
StartGuard(running) == ~running

\* start() that gets past its guard: the initial cycle, then setInterval
Start ==
    /\ StartGuard(isRunning)
    /\ isRunning' = TRUE
    /\ RunSyncCycle
    /\ intervalId' = TRUE
    /\ timers' = timers + 1
    /\ nextFire' = now + syncInterval
    /\ hist' = [NoHist EXCEPT !.op = "start"]
    /\ UNCHANGED <<storageFile, commits, now, repoStoreAttached, repoConfigStore, lastSyncTimes,
                   memoryStore, remoteDoc, nextDocId, craftState, merged>>

\* stop() on a running service: clearInterval(this.intervalId) when the
\* handle is set
Stop ==
    /\ isRunning
    /\ intervalId' = FALSE
    /\ timers' = IF intervalId THEN timers - 1 ELSE timers
    /\ nextFire' = IF timers' = 0 THEN 0 ELSE nextFire
    /\ isRunning' = FALSE
    /\ hist' = [NoHist EXCEPT !.op = "stop"]
    /\ UNCHANGED <<storageFile, commits, now, repoStoreAttached, repoConfigStore, lastSyncTimes,
                   memoryStore, remoteDoc, nextDocId, craftState, merged,
                   tasks>>

\* the setInterval callback
TimerFire ==
    /\ timers > 0
    /\ now >= nextFire
    /\ nextFire' = nextFire + syncInterval
    /\ RunSyncCycle
    /\ hist' = [NoHist EXCEPT !.op = "timer"]
    /\ UNCHANGED <<timers, storageFile, commits, now, isRunning, intervalId, repoStoreAttached,
                   repoConfigStore, lastSyncTimes, memoryStore, remoteDoc,
                   nextDocId, craftState, merged>>

\* What documents_list can come back with: a thrown transport error, the
\* list of documents, or a reply without a documents array (a tool error
\* text, an unparsed body)
ProbeReplies == {"threw", "list", "noList"}

\* documentExists(repoName) on a reply, docId the document the workspace
\* holds under the title (0: none): "result?.documents || []" turns a
\* reply without a list into an empty list
DocumentExists(reply, docId) ==
    IF reply = "threw" THEN "threw"
    ELSE IF reply = "list" /\ docId # 0 THEN "exists"
    ELSE "absent"

\* runSyncCycle, "Verify Craft document still exists": the reply of
\* documentExists arrives
DocCheck(t) ==
    LET tk == tasks[t]
        r == tk.repo IN
    /\ tk.pc = "docCheck"
    /\ \E reply \in ProbeReplies :
        IF DocumentExists(reply, remoteDoc[r]) = "absent"
        THEN \* document deleted: remove the connection and go on
             /\ repoConfigStore' = Remove(repoConfigStore, r)
             /\ lastSyncTimes' = [lastSyncTimes EXCEPT ![r] = Undef]
             /\ memoryStore' = IF repoStoreAttached
                               THEN [memoryStore EXCEPT ![r] = NoRecord]
                               ELSE memoryStore
             /\ tasks' = [tasks EXCEPT ![t] = Continue(tk, tk.i + 1, lastSyncTimes')]
             /\ hist' = [NoHist EXCEPT !.op = "reconcileAbsent",
                                       !.task = [tk EXCEPT !.reply.kind = reply],
                                       !.before = memoryStore[r]]
        ELSE /\ tasks' = EnterCycle(t, CheckStart(tk, r, ReadSyncState(r)))
             /\ hist' = [NoHist EXCEPT !.op = "cycleStart", !.task = tasks'[t]]
             /\ UNCHANGED <<repoConfigStore, lastSyncTimes, memoryStore>>
    /\ UNCHANGED <<timers, storageFile, commits, now, isRunning, intervalId, nextFire, repoStoreAttached,
                   remoteDoc, nextDocId, craftState, merged>>

\* checkForUpdates, "If no state passed, try to get from Craft"
GetState(t) ==
    LET tk == tasks[t]
        st == craftState[tk.repo] IN
    /\ tk.pc = "getState"
    /\ tasks' = [tasks EXCEPT ![t] =
            [tk EXCEPT !.lastPR = Or(st.lastProcessedPR, 0),
                       !.lastSync = st.lastSync,
                       !.pc = "listPRs"]]
    /\ hist' = [NoHist EXCEPT !.op = "getState"]
    /\ UNCHANGED <<timers, storageFile, commits, now, isRunning, intervalId, nextFire, repoStoreAttached,
                   repoConfigStore, lastSyncTimes, memoryStore, remoteDoc,
                   nextDocId, craftState, merged>>

\* checkForUpdates, "1. Check for new merged PRs": the listing arrives
ListPRs(t) ==
    LET tk == tasks[t] IN
    /\ tk.pc = "listPRs"
    /\ \/ \* listPullRequests throws, and so does checkForUpdates
          /\ tasks' = [tasks EXCEPT ![t] = Finish(tk, lastSyncTimes)]
          /\ hist' = [NoHist EXCEPT !.op = "cycleFailed", !.task = tk,
                                    !.before = memoryStore[tk.repo]]
       \/ \E listing \in Listings(merged[tk.repo]) :
            LET new == Filter(listing, tk.lastPR) IN
            /\ tasks' = [tasks EXCEPT ![t] =
                    [tk EXCEPT !.newPRs = new, !.k = 1,
                               !.pc = IF Len(new) = 0 THEN "commits" ELSE "prLoop"]]
            /\ hist' = [NoHist EXCEPT !.op = "listPRs"]
    /\ UNCHANGED <<timers, storageFile, commits, now, isRunning, intervalId, nextFire, repoStoreAttached,
                   repoConfigStore, lastSyncTimes, memoryStore, remoteDoc,
                   nextDocId, craftState, merged>>

\* checkForUpdates, one turn of "for (const pr of newPRs)"
ProcessPR(t) ==
    LET tk == tasks[t]
        r == tk.repo
        n == tk.newPRs[tk.k]
        pcNext == IF tk.k = Len(tk.newPRs) THEN "commits" ELSE "prLoop" IN
    /\ tk.pc = "prLoop"
    /\ \E ok \in BOOLEAN :
        /\ tasks' = [tasks EXCEPT ![t] =
              IF ok THEN [tk EXCEPT !.processedPRs = Append(@, n),
                                    !.k = @ + 1, !.pc = pcNext]
                    ELSE [tk EXCEPT !.failedPRs = @ \cup {n},
                                    !.k = @ + 1, !.pc = pcNext]]
        \* legacy processUpdate ends with updateState(state, prNumber),
        \* which only writes when the state document exists
        /\ craftState' =
              IF ok /\ tk.syncState.collectionIds = {} /\ craftState[r].exists
              THEN [craftState EXCEPT ![r] =
                      [exists |-> TRUE, lastProcessedPR |-> n, lastSync |-> now]]
              ELSE craftState
    /\ hist' = [NoHist EXCEPT !.op = "processPR"]
    /\ UNCHANGED <<timers, storageFile, commits, now, isRunning, intervalId, nextFire, repoStoreAttached,
                   repoConfigStore, lastSyncTimes, memoryStore, remoteDoc,
                   nextDocId, merged>>

\* outcomes of checkForUpdates, "2. Check for new commits": which call of
\* the sweep threw, or how far it went.  GitHubIntegration as found in the
\* sources defines no listRecentCommits, which is the outcome "listThrew".
CommitOutcomes ==
    {"listThrew", "noWork", "getCommitThrew", "trivial", "processThrew", "processed"}

\* the outcomes the code allows for d direct commits and a given lastSync:
\* work is done only "if (directCommits.length > 0 && lastSync)"
CommitOutcomeOk(out, d, lastSync) ==
    IF d > 0 /\ Truthy(lastSync)
    THEN out \in {"listThrew", "getCommitThrew", "trivial", "processThrew", "processed"}
    ELSE out \in {"listThrew", "noWork"}

\* the task after the commit sweep; analyzeCommitSignificance never throws
\* (it answers "significant" when the oracle fails)
AfterCommits(tk, out) ==
    [tk EXCEPT !.commitFailed = out \in {"listThrew", "getCommitThrew", "processThrew"},
               !.oracleCalls = IF out \in {"trivial", "processThrew", "processed"} THEN 1 ELSE 0,
               !.commitProc = IF out \in {"processThrew", "processed"} THEN 1 ELSE 0]

\* RepositoryStore.updateMetadata up to the await inside set(): the record
\* that set() will put into the memory store
CursorRecord(config, tk) ==
    [config EXCEPT !.lastSyncedAt = now,
                   !.lastProcessedPR = Or(HighestPR(tk), tk.syncState.lastProcessedPR)]

\* checkForUpdates from the commit listing's arrival to its return,
\* followed by what the caller does up to its next await: the task waits
\* at pc0, the listing holds d \in ds direct commits, the sweep ends in one
\* of outs
CommitReturn(t, pc0, ds, outs) ==
    LET tk == tasks[t]
        r == tk.repo IN
    /\ tk.pc = pc0
    /\ \E d \in ds, out \in outs :
        LET done == AfterCommits(tk, out)
            lst == IF tk.kind = "manual" THEN lastSyncTimes
                   ELSE [lastSyncTimes EXCEPT ![r] = now]
            writes == tk.kind \in {"timer", "single"} /\ repoStoreAttached IN
        /\ CommitOutcomeOk(out, d, tk.lastSync)
        \* legacy processCommitUpdate ends with updateState(state, null)
        /\ craftState' =
              IF out = "processed" /\ tk.syncState.collectionIds = {} /\ craftState[r].exists
              THEN [craftState EXCEPT ![r] =
                      [exists |-> TRUE, lastProcessedPR |-> Null, lastSync |-> now]]
              ELSE craftState
        /\ lastSyncTimes' = lst
        /\ IF writes /\ memoryStore[r].present
           THEN \* updateMetadata has read the record and awaits the write
                /\ tasks' = [tasks EXCEPT ![t] =
                        [done EXCEPT !.pc = "cursorWrite",
                                     !.pending = CursorRecord(memoryStore[r], done)]]
                /\ hist' = [NoHist EXCEPT !.op = "cursorBegin"]
           ELSE IF writes
           THEN \* updateMetadata throws "not found"; the cycle's catch logs it
                /\ tasks' = [tasks EXCEPT ![t] = Finish(done, lst)]
                /\ hist' = [NoHist EXCEPT !.op = "cycleFailed", !.task = done,
                                          !.before = memoryStore[r]]
           ELSE \* no store attached (or forceSyncRepository, POST /sync/manual)
                /\ tasks' = [tasks EXCEPT ![t] = Finish(done, lst)]
                /\ hist' = [NoHist EXCEPT !.op = "cycleEnd", !.task = done,
                                          !.before = memoryStore[r]]
    /\ UNCHANGED <<timers, storageFile, commits, now, isRunning, intervalId, nextFire, repoStoreAttached,
                   repoConfigStore, memoryStore, remoteDoc, nextDocId, merged>>

\* the commit sweep in one step: the listing arrives with any number of
\* direct commits and the sweep runs to its end
CommitSweep(t) == CommitReturn(t, "commits", 0..MaxCommits, CommitOutcomes)

\* listRecentCommits(owner, repo, branch, lastSync): the commits on the
\* branch dated since lastSync, all of them without it
ListCommits(dates, since) == {c \in dates : Truthy(since) => c >= since}

\* the commit listing arrives: it threw, or it holds the commits since the
\* cycle's lastSync
CommitListing(t) ==
    LET tk == tasks[t] IN
    /\ tk.pc = "commits"
    /\ \E threw \in BOOLEAN :
        tasks' = [tasks EXCEPT ![t] =
            [tk EXCEPT !.pc = "commitWork", !.commitFailed = threw,
                       !.listed = IF threw THEN {}
                                  ELSE ListCommits(commits[tk.repo], tk.lastSync)]]
    /\ hist' = [NoHist EXCEPT !.op = "listCommits"]
    /\ UNCHANGED <<timers, storageFile, commits, now, isRunning, intervalId, nextFire,
                   repoStoreAttached, repoConfigStore, lastSyncTimes, memoryStore,
                   remoteDoc, nextDocId, craftState, merged>>

\* the rest of the sweep after the listing, and the return
CommitWork(t) ==
    CommitReturn(t, "commitWork", {Cardinality(tasks[t].listed)},
                 IF tasks[t].commitFailed THEN {"listThrew"}
                 ELSE CommitOutcomes \ {"listThrew"})

\* RepositoryStore.set after its await: memoryStore.set(repoFullName, ...)
CursorWrite(t) ==
    LET tk == tasks[t]
        r == tk.repo IN
    /\ tk.pc = "cursorWrite"
    /\ memoryStore' = [memoryStore EXCEPT ![r] = tk.pending]
    /\ tasks' = [tasks EXCEPT ![t] = Finish(tk, lastSyncTimes)]
    /\ hist' = [NoHist EXCEPT !.op = "cycleEnd", !.task = tk,
                              !.before = memoryStore[r]]
    /\ UNCHANGED <<timers, storageFile, commits, now, isRunning, intervalId, nextFire, repoStoreAttached,
                   repoConfigStore, lastSyncTimes, remoteDoc, nextDocId,
                   craftState, merged>>

\* forceSyncRepository up to its await of checkForUpdates(owner, repo)
ForceTask(r) == CheckStart([IdleTask EXCEPT !.kind = "force"], r, EmptySyncState)

\* syncSingleRepo(repoFullName, config), the user-triggered sync of the service
SyncSingleRepo(r) ==
    /\ r \in Range(repoConfigStore)
    /\ Free # {}
    /\ tasks' = EnterCycle(FirstFree,
            CheckStart([IdleTask EXCEPT !.kind = "single"], r, ReadSyncState(r)))
    /\ hist' = [NoHist EXCEPT !.op = "cycleStart", !.task = tasks'[FirstFree]]
    /\ UNCHANGED <<timers, storageFile, commits, now, isRunning, intervalId, nextFire, repoStoreAttached,
                   repoConfigStore, lastSyncTimes, memoryStore, remoteDoc,
                   nextDocId, craftState, merged>>

\* POST /sync/manual: checkForUpdates(owner, repo, branch) without sync state
ManualSync(r) ==
    /\ Free # {}
    /\ tasks' = EnterCycle(FirstFree,
            CheckStart([IdleTask EXCEPT !.kind = "manual"], r, EmptySyncState))
    /\ hist' = [NoHist EXCEPT !.op = "cycleStart", !.task = tasks'[FirstFree]]
    /\ UNCHANGED <<timers, storageFile, commits, now, isRunning, intervalId, nextFire, repoStoreAttached,
                   repoConfigStore, lastSyncTimes, memoryStore, remoteDoc,
                   nextDocId, craftState, merged>>

\* ------------------------------------------------------ POST /sync/analyze
\* addRepository(repoFullName, config) as the last call of a handler that
\* runs in slot t: the forced sync it fires takes the handler's slot
AddRepository(t, r) ==
    /\ repoConfigStore' = MapSet(repoConfigStore, r)
    /\ tasks' = IF isRunning
                THEN EnterCycle(t, ForceTask(r))
                ELSE [tasks EXCEPT ![t] = IdleTask]

\* String.prototype.toLowerCase on a repository name or a document title
\* (documentExists compares title.toLowerCase() with docTitle.toLowerCase())
ToLowerCase(r) == IF r = "O/R" THEN "o/r" ELSE r

\* the request arrives with the id of session s: validation, then the
\* await of sessionStore.get
AnalyzeRequestAs(r, s) ==
    /\ \E fieldsOk \in BOOLEAN :
        IF fieldsOk
        THEN /\ Free # {}
             /\ tasks' = [tasks EXCEPT ![FirstFree] =
                    [IdleTask EXCEPT !.kind = "analyze", !.pc = "aSession", !.repo = r,
                                     !.session = s]]
             /\ hist' = [NoHist EXCEPT !.op = "analyzeRequest"]
        ELSE /\ tasks' = tasks
             /\ hist' = [NoHist EXCEPT !.op = "analyze400"]
    /\ UNCHANGED <<timers, storageFile, commits, now, isRunning, intervalId, nextFire, repoStoreAttached,
                   repoConfigStore, lastSyncTimes, memoryStore, remoteDoc,
                   nextDocId, craftState, merged>>

\* the request of the first user
AnalyzeRequest(r) == AnalyzeRequestAs(r, FirstSession)

\* the gate looking at the collection ids instead of the document id
AnalyzeGateOnCollections(existingRepo) ==
    existingRepo.present /\ existingRepo.collectionIds # {}

\* "Check if repository is already connected with existing documentation"
AnalyzeGate(existingRepo) == existingRepo.present /\ Truthy(existingRepo.documentId)

\* the session arrives; then the idempotence gate
AnalyzeSession(t) ==
    LET tk == tasks[t]
        r == tk.repo
        existingRepo == memoryStore[r] IN
    /\ tk.pc = "aSession"
    /\ \E sessionOk \in BOOLEAN :
        IF ~sessionOk
        THEN /\ tasks' = [tasks EXCEPT ![t] = IdleTask]
             /\ hist' = [NoHist EXCEPT !.op = "analyze401"]
        ELSE IF AnalyzeGate(existingRepo)
        THEN /\ tasks' = [tasks EXCEPT ![t] = IdleTask]
             /\ hist' = [NoHist EXCEPT !.op = "analyzeExisting",
                                       !.task = [tk EXCEPT !.existing = existingRepo],
                                       !.before = existingRepo,
                                       !.docId = existingRepo.documentId]
        ELSE /\ tasks' = [tasks EXCEPT ![t] =
                    [tk EXCEPT !.existing = existingRepo, !.pc = "aProbe"]]
             /\ hist' = [NoHist EXCEPT !.op = "analyzeProbe"]
    /\ UNCHANGED <<timers, storageFile, commits, now, isRunning, intervalId, nextFire, repoStoreAttached,
                   repoConfigStore, lastSyncTimes, memoryStore, remoteDoc,
                   nextDocId, craftState, merged>>

\* the record the route hands to repoStore.set: no collectionIds, no cursor
RouteRecord(docId, session) ==
    [present |-> TRUE, documentId |-> docId, collectionIds |-> {},
     lastProcessedPR |-> Undef, lastSyncedAt |-> Undef, connectedWith |-> docId,
     autoSyncEnabled |-> TRUE, githubToken |-> session.accessToken,
     user |-> session.user]

\* "Also check directly in Craft space": the reply of documentExists
AnalyzeProbe(t) ==
    LET tk == tasks[t]
        r == tk.repo IN
    /\ tk.pc = "aProbe"
    /\ \E threw \in BOOLEAN :
        tasks' = [tasks EXCEPT ![t] =
            IF ~threw /\ remoteDoc[ToLowerCase(r)] # 0
            THEN [tk EXCEPT !.pc = "aHydrate", !.pending = RouteRecord(remoteDoc[ToLowerCase(r)], tk.session)]
            ELSE [tk EXCEPT !.pc = "aGenerate"]]
    /\ hist' = [NoHist EXCEPT !.op = "analyzeProbed"]
    /\ UNCHANGED <<timers, storageFile, commits, now, isRunning, intervalId, nextFire, repoStoreAttached,
                   repoConfigStore, lastSyncTimes, memoryStore, remoteDoc,
                   nextDocId, craftState, merged>>

\* analyzer.analyzeAndGenerate: createEngineeringBrain returns the existing
\* document, or creates one; any step may throw (answered with 500)
AnalyzeGenerate(t) ==
    LET tk == tasks[t]
        r == tk.repo IN
    /\ tk.pc = "aGenerate"
    /\ \E threw \in BOOLEAN :
        LET creates == remoteDoc[ToLowerCase(r)] = 0 /\ nextDocId <= MaxDocs
            failsEarly == remoteDoc[ToLowerCase(r)] = 0 /\ nextDocId > MaxDocs
            docId == IF creates THEN nextDocId ELSE remoteDoc[ToLowerCase(r)]
            ran == [tk EXCEPT !.created = IF creates THEN 1 ELSE 0] IN
        /\ threw \/ ~failsEarly
        /\ \/ \* documents_create is reached (or the document was found)
              /\ ~failsEarly
              /\ remoteDoc' = [remoteDoc EXCEPT ![ToLowerCase(r)] = docId]
              /\ nextDocId' = IF creates THEN nextDocId + 1 ELSE nextDocId
              /\ IF threw
                 THEN /\ tasks' = [tasks EXCEPT ![t] = IdleTask]
                      /\ hist' = [NoHist EXCEPT !.op = "analyze500", !.task = ran,
                                                !.before = memoryStore[r]]
                 ELSE /\ tasks' = [tasks EXCEPT ![t] =
                            [ran EXCEPT !.pc = "aSet", !.pending = RouteRecord(docId, tk.session)]]
                      /\ hist' = [NoHist EXCEPT !.op = "analyzeGenerated"]
           \/ \* a throw before documents_create
              /\ threw
              /\ tasks' = [tasks EXCEPT ![t] = IdleTask]
              /\ hist' = [NoHist EXCEPT !.op = "analyze500", !.task = tk,
                                        !.before = memoryStore[r]]
              /\ UNCHANGED <<remoteDoc, nextDocId>>
    /\ UNCHANGED <<timers, storageFile, commits, now, isRunning, intervalId, nextFire, repoStoreAttached,
                   repoConfigStore, lastSyncTimes, memoryStore, craftState, merged>>

\* repoStore.set returns (memoryStore.set), addRepository, the response
AnalyzeStore(t) ==
    LET tk == tasks[t]
        r == tk.repo IN
    /\ tk.pc \in {"aHydrate", "aSet"}
    /\ memoryStore' = [memoryStore EXCEPT ![r] = tk.pending]
    /\ AddRepository(t, r)
    /\ hist' = [NoHist EXCEPT
                  !.op = IF tk.pc = "aHydrate" THEN "analyzeExisting" ELSE "analyzeCreated",
                  !.task = tk, !.before = memoryStore[r],
                  !.docId = tk.pending.documentId]
    /\ UNCHANGED <<timers, storageFile, commits, now, isRunning, intervalId, nextFire, repoStoreAttached,
                   lastSyncTimes, remoteDoc, nextDocId, craftState, merged>>

\* DELETE /sync/disconnect/:repoFullName for a connected repository
Disconnect(r) ==
    /\ memoryStore[r].present
    /\ \E deleteCraftDoc \in BOOLEAN :
        remoteDoc' = IF deleteCraftDoc
                     THEN [remoteDoc EXCEPT ![ToLowerCase(r)] = 0]
                     ELSE remoteDoc
    /\ repoConfigStore' = Remove(repoConfigStore, r)
    /\ lastSyncTimes' = IF r \in Range(repoConfigStore)
                        THEN [lastSyncTimes EXCEPT ![r] = Undef]
                        ELSE lastSyncTimes
    /\ memoryStore' = [memoryStore EXCEPT ![r] = NoRecord]
    /\ hist' = [NoHist EXCEPT !.op = "disconnect"]
    /\ UNCHANGED <<timers, storageFile, commits, now, isRunning, intervalId, nextFire, repoStoreAttached,
                   nextDocId, craftState, merged, tasks>>

\* ------------------------------------- the other Connection API requests
\* The frame of a handler step that answers without doing any work
RequestFrame ==
    UNCHANGED <<timers, storageFile, commits, now, isRunning, intervalId, nextFire, repoStoreAttached,
                repoConfigStore, lastSyncTimes, memoryStore, remoteDoc,
                nextDocId, craftState, merged>>

\* POST /sync/manual arrives: validation, then the await of sessionStore.get
ManualRequest(r) ==
    /\ \E fieldsOk \in BOOLEAN :
        IF fieldsOk
        THEN /\ Free # {}
             /\ tasks' = [tasks EXCEPT ![FirstFree] =
                    [IdleTask EXCEPT !.kind = "manual", !.pc = "mSession", !.repo = r]]
             /\ hist' = [NoHist EXCEPT !.op = "manualRequest"]
        ELSE /\ tasks' = tasks
             /\ hist' = [NoHist EXCEPT !.op = "manual400"]
    /\ RequestFrame

\* POST /sync/manual, the session arrives: 401, or a new updater begins
\* checkForUpdates(owner, repo, branch)
ManualSession(t) ==
    LET tk == tasks[t] IN
    /\ tk.pc = "mSession"
    /\ \E sessionOk \in BOOLEAN :
        IF ~sessionOk
        THEN /\ tasks' = [tasks EXCEPT ![t] = IdleTask]
             /\ hist' = [NoHist EXCEPT !.op = "manual401", !.task = tk]
        ELSE /\ tasks' = EnterCycle(t,
                    CheckStart([IdleTask EXCEPT !.kind = "manual"], tk.repo, EmptySyncState))
             /\ hist' = [NoHist EXCEPT !.op = "cycleStart", !.task = tasks'[t]]
    /\ RequestFrame

\* GET /sync/connected arrives: validation, then the await of sessionStore.get
ConnectedRequest ==
    /\ \E fieldsOk \in BOOLEAN :
        IF fieldsOk
        THEN /\ Free # {}
             /\ tasks' = [tasks EXCEPT ![FirstFree] =
                    [IdleTask EXCEPT !.kind = "connected", !.pc = "cSession"]]
             /\ hist' = [NoHist EXCEPT !.op = "connectedRequest"]
        ELSE /\ tasks' = tasks
             /\ hist' = [NoHist EXCEPT !.op = "connected400"]
    /\ RequestFrame

\* GET /sync/connected, "Filter by user ID": the record is the session
\* user's when the user ids or the logins are equal
Listed(repo, session) == repo.present /\ repo.user = session.user

\* DELETE /sync/disconnect, "Verify ownership"
Owns(repo, session) == repo.githubToken = session.accessToken

\* GET /sync/connected, the session arrives: 401, or the user's records
\* are listed for verification
ConnectedSession(t) ==
    LET tk == tasks[t] IN
    /\ tk.pc = "cSession"
    /\ \E session \in Sessions \cup {NoSession} :
        IF session = NoSession
        THEN /\ tasks' = [tasks EXCEPT ![t] = IdleTask]
             /\ hist' = [NoHist EXCEPT !.op = "connected401", !.task = tk]
        ELSE /\ tasks' = [tasks EXCEPT ![t] =
                    IF Listed(memoryStore[tk.repo], session)
                    THEN [tk EXCEPT !.pc = "cVerify", !.session = session,
                                    !.calls = <<Call("documents_list", "")>>]
                    ELSE IdleTask]
             /\ hist' = [NoHist EXCEPT !.op = "connectedListed",
                                       !.task = [tk EXCEPT !.session = session],
                                       !.before = memoryStore[tk.repo]]
    /\ RequestFrame

\* GET /sync/connected, "Verify each repo's document still exists in
\* Craft": the reply of documentExists; an absent document removes the
\* record and the service's entry, a failed check keeps them
ConnectedVerify(t) ==
    LET tk == tasks[t]
        r == tk.repo IN
    /\ tk.pc = "cVerify"
    /\ \E reply \in ProbeReplies :
        LET gone == DocumentExists(reply, remoteDoc[ToLowerCase(r)]) = "absent" IN
        /\ memoryStore' = IF gone THEN [memoryStore EXCEPT ![r] = NoRecord] ELSE memoryStore
        /\ repoConfigStore' = IF gone THEN Remove(repoConfigStore, r) ELSE repoConfigStore
        /\ hist' = [NoHist EXCEPT !.op = "connected",
                                  !.task = [tk EXCEPT !.reply.kind = reply],
                                  !.before = memoryStore[r]]
    /\ tasks' = [tasks EXCEPT ![t] = IdleTask]
    /\ UNCHANGED <<timers, storageFile, commits, now, isRunning, intervalId, nextFire, repoStoreAttached,
                   lastSyncTimes, remoteDoc, nextDocId, craftState, merged>>

\* DELETE /sync/disconnect arrives: validation, then the await of
\* sessionStore.get
DisconnectRequest(r) ==
    /\ \E fieldsOk \in BOOLEAN :
        IF fieldsOk
        THEN /\ Free # {}
             /\ tasks' = [tasks EXCEPT ![FirstFree] =
                    [IdleTask EXCEPT !.kind = "disconnect", !.pc = "dSession", !.repo = r]]
             /\ hist' = [NoHist EXCEPT !.op = "disconnectRequest"]
        ELSE /\ tasks' = tasks
             /\ hist' = [NoHist EXCEPT !.op = "disconnect400"]
    /\ RequestFrame

\* the answer of DELETE /sync/disconnect
DisconnectAnswer(sessionOk, repo, owns) ==
    IF ~sessionOk THEN "disconnect401"
    ELSE IF ~repo.present THEN "disconnect404"
    ELSE IF ~owns THEN "disconnect403"
    ELSE "disconnect"

\* the removal running without the session and ownership checks
DisconnectRemovesUnchecked(sessionOk, repo, owns) == repo.present

\* DELETE /sync/disconnect reaches "Remove from sync service"
DisconnectRemoves(sessionOk, repo, owns) == sessionOk /\ repo.present /\ owns

\* DELETE /sync/disconnect, the session arrives: 401, 404, 403, or the
\* optional deleteDocument, removeRepository and repoStore.delete
DisconnectSession(t) ==
    LET tk == tasks[t]
        r == tk.repo
        repo == memoryStore[r] IN
    /\ tk.pc = "dSession"
    /\ \E session \in Sessions \cup {NoSession}, deleteCraftDoc \in BOOLEAN :
        LET sessionOk == session # NoSession
            owns == Owns(repo, session)
            removes == DisconnectRemoves(sessionOk, repo, owns) IN
        /\ remoteDoc' = IF removes /\ deleteCraftDoc
                         THEN [remoteDoc EXCEPT ![ToLowerCase(r)] = 0]
                         ELSE remoteDoc
        /\ repoConfigStore' = IF removes THEN Remove(repoConfigStore, r) ELSE repoConfigStore
        /\ lastSyncTimes' = IF removes /\ r \in Range(repoConfigStore)
                            THEN [lastSyncTimes EXCEPT ![r] = Undef]
                            ELSE lastSyncTimes
        /\ memoryStore' = IF removes THEN [memoryStore EXCEPT ![r] = NoRecord] ELSE memoryStore
        /\ hist' = [NoHist EXCEPT !.op = DisconnectAnswer(sessionOk, repo, owns),
                                  !.task = [tk EXCEPT !.session = session],
                                  !.before = repo]
    /\ tasks' = [tasks EXCEPT ![t] = IdleTask]
    /\ UNCHANGED <<timers, storageFile, commits, now, isRunning, intervalId, nextFire, repoStoreAttached,
                   nextDocId, craftState, merged>>

\* ------------------------------------------------- POST /webhook/github
\* verifySignature(payload, signature): no header is refused; without a
\* configured secret every header is accepted; otherwise the header must
\* equal the digest (timingSafeEqual, false on a length mismatch)
VerifySignature(payload, signature, secret) ==
    IF signature = NoSignature THEN FALSE
    ELSE IF secret = 0 THEN TRUE
    ELSE signature = Hmac(payload, secret)

\* POST /webhook/github up to its first await: 401, an ignored event, or
\* the dispatch to processUpdate / the push handling for a connected
\* repository
WebhookGitHub(r) ==
    /\ \E payload \in Bodies, secret \in {0} \cup Keys,
          signature \in {NoSignature} \cup {Hmac(b, k) : b \in Bodies, k \in Keys} :
        LET hook == [body |-> payload, signature |-> signature, secret |-> secret]
            tk == [IdleTask EXCEPT !.kind = "webhook", !.pc = "wUpdate",
                                   !.repo = r, !.hook = hook] IN
        IF ~VerifySignature(payload, signature, secret)
        THEN /\ tasks' = tasks
             /\ hist' = [NoHist EXCEPT !.op = "webhook401", !.task = tk]
        ELSE IF \/ payload.event = "pull_request" /\ ~payload.merged
                \/ ~memoryStore[r].present
        THEN /\ tasks' = tasks
             /\ hist' = [NoHist EXCEPT !.op = "webhookIgnored", !.task = tk]
        ELSE /\ Free # {}
             /\ tasks' = [tasks EXCEPT ![FirstFree] = tk]
             /\ hist' = [NoHist EXCEPT !.op = "webhookDispatch", !.task = tk]
    /\ RequestFrame

\* the dispatched handler ends: processUpdate (or, for a push found
\* significant, processCommitUpdate) has updated the documentation and
\* its state, or its failure was logged
WebhookUpdate(t) ==
    LET tk == tasks[t]
        r == tk.repo IN
    /\ tk.pc = "wUpdate"
    /\ \E ok \in BOOLEAN :
        /\ craftState' =
              IF ok /\ craftState[r].exists
              THEN [craftState EXCEPT ![r] =
                      [exists |-> TRUE,
                       lastProcessedPR |-> IF tk.hook.body.event = "push"
                                           THEN Null ELSE tk.hook.body.number,
                       lastSync |-> now]]
              ELSE craftState
        /\ hist' = [NoHist EXCEPT !.op = IF ok THEN "webhookDone" ELSE "webhookFailed",
                                  !.task = tk, !.before = memoryStore[r]]
    /\ tasks' = [tasks EXCEPT ![t] = IdleTask]
    /\ UNCHANGED <<timers, storageFile, commits, now, isRunning, intervalId, nextFire, repoStoreAttached,
                   repoConfigStore, lastSyncTimes, memoryStore, remoteDoc,
                   nextDocId, merged>>

\* --------------------------------------------------- llm.js, repairJSON
\* Strings are sequences of one-character strings.
\* the characters replies are built from, after the opening {"a":
BodyChars == {"\"", ",", "}", "]", "[", "\\", "n", " "}

JsonOpening == <<"{", "\"", "a", "\"", ":">>

RECURSIVE BodiesOf(_)
\* every string of at most n body characters
BodiesOf(n) ==
    IF n = 0 THEN {<<>>}
    ELSE LET shorter == BodiesOf(n - 1) IN
         shorter \cup {Append(b, c) : b \in {d \in shorter : Len(d) = n - 1}, c \in BodyChars}

RECURSIVE SkipWs(_, _)
\* \s*: the first index from i on that holds no whitespace
SkipWs(str, i) ==
    IF i <= Len(str) /\ str[i] = " " THEN SkipWs(str, i + 1) ELSE i

\* (\s*[}\]]) matches at i
ClosesAt(str, i) ==
    LET k == SkipWs(str, i) IN k <= Len(str) /\ str[k] \in {"}", "]"}

RECURSIVE RemoveTrailingCommas(_, _)
\* jsonStr.replace(/,(\s*[}\]])/g, '$1') from index i on
RemoveTrailingCommas(str, i) ==
    IF i > Len(str) THEN <<>>
    ELSE IF str[i] = "," /\ ClosesAt(str, i + 1)
         THEN RemoveTrailingCommas(str, i + 1)
         ELSE <<str[i]>> \o RemoveTrailingCommas(str, i + 1)

RECURSIVE EscapeNewlines(_, _)
\* jsonStr.replace(/([^\\])\\n/g, '$1\\\\n') from index i on: a match
\* takes the character before the backslash with it
EscapeNewlines(str, i) ==
    IF i > Len(str) THEN <<>>
    ELSE IF i + 2 <= Len(str) /\ str[i] # "\\" /\ str[i + 1] = "\\" /\ str[i + 2] = "n"
         THEN <<str[i], "\\", "\\", "n">> \o EscapeNewlines(str, i + 3)
         ELSE <<str[i]>> \o EscapeNewlines(str, i + 1)

\* the number of occurrences of c: (jsonStr.match(/c/g) || []).length
Count(str, c) == Cardinality({i \in 1..Len(str) : str[i] = c})

\* /,\s*"[^"]*$/ matches at i
TruncatedElementAt(str, i) ==
    LET k == SkipWs(str, i + 1) IN
    /\ str[i] = ","
    /\ k <= Len(str)
    /\ str[k] = "\""
    /\ \A j \in (k + 1)..Len(str) : str[j] # "\""

\* jsonStr.replace(/,\s*"[^"]*$/, '')
TruncateElement(str) ==
    LET at == {i \in 1..Len(str) : TruncatedElementAt(str, i)} IN
    IF at = {} THEN str
    ELSE SubSeq(str, 1, (CHOOSE i \in at : \A j \in at : i <= j) - 1)

RECURSIVE CloseArrays(_, _)
\* "Fix truncated arrays": diff times, truncate and append ']'
CloseArrays(str, diff) ==
    IF diff <= 0 THEN str
    ELSE CloseArrays(Append(TruncateElement(str), "]"), diff - 1)

RECURSIVE CloseObjects(_, _)
\* "Fix truncated objects": append '}' diff times
CloseObjects(str, diff) ==
    IF diff <= 0 THEN str ELSE CloseObjects(Append(str, "}"), diff - 1)

\* "Remove any trailing text after the last }"
TrimAfterLastBrace(str) ==
    LET at == {i \in 1..Len(str) : str[i] = "}"} IN
    IF at = {} THEN str
    ELSE SubSeq(str, 1, CHOOSE i \in at : \A j \in at : j <= i)

\* LLMIntegration.repairJSON(jsonStr)
RepairJSON(jsonStr) ==
    LET s1 == RemoveTrailingCommas(jsonStr, 1)
        s2 == EscapeNewlines(s1, 1)
        s3 == CloseArrays(s2, Count(s2, "[") - Count(s2, "]"))
        s4 == CloseObjects(s3, Count(s3, "{") - Count(s3, "}")) IN
    TrimAfterLastBrace(s4)

RECURSIVE StringEnd(_, _)
\* JSON.parse inside a string literal, from index i: the index after the
\* closing quote, 0 when the literal is not well formed
StringEnd(str, i) ==
    IF i > Len(str) THEN 0
    ELSE IF str[i] = "\"" THEN i + 1
    ELSE IF str[i] = "\\"
         THEN IF i + 1 <= Len(str) /\ str[i + 1] \in {"\"", "\\", "n"}
              THEN StringEnd(str, i + 2)
              ELSE 0
    ELSE StringEnd(str, i + 1)

RECURSIVE ValueEnd(_, _)
RECURSIVE ElementsEnd(_, _)
RECURSIVE MembersEnd(_, _)
\* JSON.parse of a value that begins at i: the index after it, 0 when
\* there is no value there
ValueEnd(str, i) ==
    IF i > Len(str) THEN 0
    ELSE IF str[i] = "\"" THEN StringEnd(str, i + 1)
    ELSE IF str[i] = "["
         THEN LET k == SkipWs(str, i + 1) IN
              IF k <= Len(str) /\ str[k] = "]" THEN k + 1 ELSE ElementsEnd(str, k)
    ELSE IF str[i] = "{"
         THEN LET k == SkipWs(str, i + 1) IN
              IF k <= Len(str) /\ str[k] = "}" THEN k + 1 ELSE MembersEnd(str, k)
    ELSE 0

\* the elements of an array from i up to and including its ']'
ElementsEnd(str, i) ==
    LET v == ValueEnd(str, i)
        k == SkipWs(str, v) IN
    IF v = 0 \/ k > Len(str) THEN 0
    ELSE IF str[k] = "]" THEN k + 1
    ELSE IF str[k] = "," THEN ElementsEnd(str, SkipWs(str, k + 1))
    ELSE 0

\* the members of an object from i up to and including its '}'
MembersEnd(str, i) ==
    LET key == IF i <= Len(str) /\ str[i] = "\"" THEN StringEnd(str, i + 1) ELSE 0
        c == SkipWs(str, key)
        v == IF key # 0 /\ c <= Len(str) /\ str[c] = ":"
             THEN ValueEnd(str, SkipWs(str, c + 1)) ELSE 0
        k == SkipWs(str, v) IN
    IF v = 0 \/ k > Len(str) THEN 0
    ELSE IF str[k] = "}" THEN k + 1
    ELSE IF str[k] = "," THEN MembersEnd(str, SkipWs(str, k + 1))
    ELSE 0

\* JSON.parse(jsonStr) does not throw
Parses(str) ==
    LET v == ValueEnd(str, SkipWs(str, 1)) IN
    v # 0 /\ SkipWs(str, v) = Len(str) + 1

\* parseAnalysisResponse up to JSON.parse: the reply's text from its first
\* '{' is repaired
RepairReply(t) ==
    LET tk == tasks[t]
        repaired == [tk EXCEPT !.jsonStr = RepairJSON(tk.jsonStr), !.pc = "defaults"] IN
    /\ tk.pc = "repair"
    /\ tasks' = [tasks EXCEPT ![t] = repaired]
    /\ hist' = [NoHist EXCEPT !.op = "repairJSON", !.task = repaired]
    /\ UNCHANGED <<timers, storageFile, commits, now, isRunning, intervalId, nextFire, repoStoreAttached,
                   repoConfigStore, lastSyncTimes, memoryStore, remoteDoc,
                   nextDocId, craftState, merged>>

\* "Ensure all required fields exist": analysis.f = analysis.f || default
EnsureFields(analysis) ==
    [analysis EXCEPT !.overview = Or(@, 1), !.architecture = Or(@, 1),
                     !.openQuestions = Or(@, 1), !.engineeringTasks = Or(@, 1),
                     !.confidence = Or(@, Half)]

\* parseAnalysisResponse from JSON.parse on: the parsed object with its
\* defaults, or the fallback analysis when JSON.parse threw
ParseReply(t) ==
    LET tk == tasks[t] IN
    /\ tk.pc = "defaults"
    /\ IF Parses(tk.jsonStr)
       THEN \E analysis \in ParsedReplies :
               hist' = [NoHist EXCEPT !.op = "parsed",
                           !.task = [tk EXCEPT !.parsed = EnsureFields(analysis)]]
       ELSE hist' = [NoHist EXCEPT !.op = "parseFallback",
                        !.task = [tk EXCEPT !.parsed = FallbackParsed]]
    /\ tasks' = [tasks EXCEPT ![t] = IdleTask]
    /\ UNCHANGED <<timers, storageFile, commits, now, isRunning, intervalId, nextFire, repoStoreAttached,
                   repoConfigStore, lastSyncTimes, memoryStore, remoteDoc,
                   nextDocId, craftState, merged>>

\* ------------------------------------- craft-advanced.js, updateMainDocument
\* A block of the main document by what its text holds: the heading
\* "## Tech Stack", a mention of "Tech Stack" without the heading marks, or
\* neither; content tells the old text from the newContent of the call
BlockKinds == {"heading", "mention", "other"}

RECURSIVE DocsOf(_)
\* the documents of at most n blocks, ids in document order
DocsOf(n) ==
    IF n = 0 THEN {<<>>}
    ELSE LET shorter == DocsOf(n - 1) IN
         shorter \cup {Append(d, [id |-> n, kind |-> k, content |-> "old"]) :
                          d \in {e \in shorter : Len(e) = n - 1}, k \in BlockKinds}

\* findBlocksByPattern(blocks, pattern) for the two patterns of the Tech
\* Stack upsert: new RegExp(pattern, 'i').test(content)
FindBlocksByPattern(blocks, pattern) ==
    SelectSeq(blocks, LAMBDA b :
        IF pattern = "## Tech Stack" THEN b.kind = "heading"
        ELSE b.kind \in {"heading", "mention"})

\* the ids of a list of blocks
IdsOf(blocks) == {blocks[i].id : i \in 1..Len(blocks)}

\* updateMainDocument after the deletions: "find and update" when the
\* blocks read at the start hold a match, else the append
AfterDelete(tk) ==
    [tk EXCEPT !.pc = IF FindBlocksByPattern(tk.blocks, "Tech Stack") # <<>>
                      THEN "mdUpdate" ELSE "mdAppend"]

\* getDocumentBlocks returns (an empty list when blocks_get failed)
MainDocRead(t) ==
    LET tk == tasks[t] IN
    /\ tk.pc = "mdRead"
    /\ \E ok \in BOOLEAN :
        LET blocks == IF ok THEN tk.doc ELSE <<>>
            read == [tk EXCEPT !.blocks = blocks, !.failed = ~ok] IN
        tasks' = [tasks EXCEPT ![t] =
            IF blocks = <<>> THEN [read EXCEPT !.pc = "mdAppend"]
            ELSE IF FindBlocksByPattern(blocks, "## Tech Stack") # <<>>
                 THEN [read EXCEPT !.pc = "mdDelete"]
                 ELSE AfterDelete(read)]
    /\ hist' = [NoHist EXCEPT !.op = "mainDocRead"]
    /\ RequestFrame

\* deleteBlocks returns: blocks_delete for each id in turn, the first
\* failure ends the loop and is logged
MainDocDelete(t) ==
    LET tk == tasks[t]
        toDelete == FindBlocksByPattern(tk.blocks, "## Tech Stack") IN
    /\ tk.pc = "mdDelete"
    /\ \E n \in 0..Len(toDelete) :
        LET gone == IdsOf(SubSeq(toDelete, 1, n)) IN
        tasks' = [tasks EXCEPT ![t] =
            AfterDelete([tk EXCEPT !.doc = SelectSeq(@, LAMBDA b : b.id \notin gone),
                                   !.failed = @ \/ n < Len(toDelete)])]
    /\ hist' = [NoHist EXCEPT !.op = "mainDocDeleted"]
    /\ RequestFrame

\* the block updateBlock is called for: sectionBlocks[0] of the blocks read
\* at the start of the call
TargetBlock(tk) == FindBlocksByPattern(tk.blocks, "Tech Stack")[1].id

\* updateBlock or markdown_add returns, and updateMainDocument with it
MainDocWrite(t) ==
    LET tk == tasks[t] IN
    /\ tk.pc \in {"mdUpdate", "mdAppend"}
    /\ \E ok \in BOOLEAN :
        LET written ==
              IF tk.pc = "mdAppend"
              THEN IF ok
                   THEN [tk EXCEPT !.doc = Append(@, [id |-> MaxBlocks + 1, kind |-> "heading",
                                                      content |-> "new"])]
                   ELSE [tk EXCEPT !.failed = TRUE]
              ELSE IF TargetBlock(tk) \notin IdsOf(tk.doc)
                   THEN tk    \* blocks_update of a block that is gone
                   ELSE IF ok
                   THEN [tk EXCEPT !.doc = [i \in 1..Len(@) |->
                                              IF @[i].id = TargetBlock(tk)
                                              THEN [id |-> @[i].id, kind |-> "heading",
                                                    content |-> "new"]
                                              ELSE @[i]]]
                   ELSE [tk EXCEPT !.failed = TRUE] IN
        hist' = [NoHist EXCEPT !.op = "mainDocUpdated", !.task = written]
    /\ tasks' = [tasks EXCEPT ![t] = IdleTask]
    /\ RequestFrame

\* ------------------------------------------------------------ environment
Tick ==
    /\ now < MaxNow
    /\ now' = now + 1
    /\ hist' = [NoHist EXCEPT !.op = "tick"]
    /\ UNCHANGED <<timers, storageFile, commits, isRunning, intervalId, nextFire, repoStoreAttached,
                   repoConfigStore, lastSyncTimes, memoryStore, remoteDoc,
                   nextDocId, craftState, merged, tasks>>

\* a pull request is merged on the provider
MergePR(r) ==
    /\ \E n \in (1..MaxPR) \ merged[r] :
        /\ merged' = [merged EXCEPT ![r] = @ \cup {n}]
        /\ hist' = [NoHist EXCEPT !.op = "merge", !.pr = n]
    /\ UNCHANGED <<timers, storageFile, commits, now, isRunning, intervalId, nextFire, repoStoreAttached,
                   repoConfigStore, lastSyncTimes, memoryStore, remoteDoc,
                   nextDocId, craftState, tasks>>

\* a direct commit lands on the branch
Commit(r) ==
    /\ now \notin commits[r]
    /\ commits' = [commits EXCEPT ![r] = @ \cup {now}]
    /\ hist' = [NoHist EXCEPT !.op = "commit", !.date = now]
    /\ UNCHANGED <<timers, storageFile, now, isRunning, intervalId, nextFire, repoStoreAttached,
                   repoConfigStore, lastSyncTimes, memoryStore, remoteDoc,
                   nextDocId, craftState, merged, tasks>>

\* the user deletes the document in the workspace
DeleteDoc(r) ==
    /\ remoteDoc[r] # 0
    /\ remoteDoc' = [remoteDoc EXCEPT ![r] = 0]
    /\ hist' = [NoHist EXCEPT !.op = "deleteDoc"]
    /\ UNCHANGED <<timers, storageFile, commits, now, isRunning, intervalId, nextFire, repoStoreAttached,
                   repoConfigStore, lastSyncTimes, memoryStore, nextDocId,
                   craftState, merged, tasks>>

\* ------------------------------------------------------ the specification
\* startServer: the store holds the rows loaded by initialize(), the
\* service is constructed over the rows that have a token and an endpoint
Init ==
    /\ now = 1
    /\ isRunning = FALSE
    /\ intervalId = FALSE
    /\ timers = 0
    /\ nextFire = 0
    /\ repoStoreAttached \in BOOLEAN
    /\ memoryStore \in [Repos -> {NoRecord, LoadedRow}]
    /\ repoConfigStore = SelectSeq(RepoOrder, LAMBDA r : memoryStore[r].present)
    /\ lastSyncTimes = [r \in Repos |-> Undef]
    /\ remoteDoc = [r \in Repos |-> IF memoryStore[r].present THEN 1 ELSE 0]
    /\ nextDocId = 2
    /\ craftState \in [Repos -> {NoCraftState,
                                 [exists |-> TRUE, lastProcessedPR |-> Null, lastSync |-> Null]}]
    /\ merged = [r \in Repos |-> {}]
    /\ storageFile = [r \in Repos |-> NoRecord]
    /\ commits = [r \in Repos |-> {}]
    /\ tasks = [t \in TaskIds |-> IdleTask]
    /\ hist = NoHist

\* no async invocation is in flight
Idle == \A t \in TaskIds : tasks[t].kind = "none"

\* Requests and cycles one after another: a new request or cycle begins
\* only when the previous one has ended.  The clock stands still.
NextSeq ==
    \/ Idle /\ Start
    \/ Stop
    \/ \E t \in TaskIds : DocCheck(t)
    \/ \E t \in TaskIds : GetState(t)
    \/ \E t \in TaskIds : ListPRs(t)
    \/ \E t \in TaskIds : ProcessPR(t)
    \/ \E t \in TaskIds : CommitSweep(t)
    \/ \E t \in TaskIds : CursorWrite(t)
    \/ \E r \in Repos : Idle /\ SyncSingleRepo(r)
    \/ \E r \in Repos : Idle /\ ManualSync(r)
    \/ \E r \in Repos : Idle /\ AnalyzeRequest(r)
    \/ \E t \in TaskIds : AnalyzeSession(t)
    \/ \E t \in TaskIds : AnalyzeProbe(t)
    \/ \E t \in TaskIds : AnalyzeGenerate(t)
    \/ \E t \in TaskIds : AnalyzeStore(t)
    \/ \E r \in Repos : Disconnect(r)
    \/ \E r \in Repos : MergePR(r)
    \/ \E r \in Repos : DeleteDoc(r)

SpecSeq == Init /\ [][NextSeq]_vars

\* The service as startServer constructs it, new ContinuousSyncService(
\* repoConfigs) without a store, with its timer and the clock: a cycle can
\* still be in flight when the timer fires again.
InitWired ==
    /\ Init
    /\ ~repoStoreAttached
    /\ \A r \in Repos : ~craftState[r].exists

NextTimer ==
    \/ Start
    \/ TimerFire
    \/ \E t \in TaskIds : DocCheck(t)
    \/ \E t \in TaskIds : GetState(t)
    \/ \E t \in TaskIds : ListPRs(t)
    \/ \E t \in TaskIds : ProcessPR(t)
    \/ \E t \in TaskIds : CommitSweep(t)
    \/ Tick
    \/ \E r \in Repos : MergePR(r)
    \/ \E r \in Repos : DeleteDoc(r)

SpecTimer == InitWired /\ [][NextTimer]_vars

\* ---------------------------------------------------- processing of one PR
\* processUpdateWithCollections, "isMajorChange", on any feature
IsMajorChangeAnyFeature(a) ==
    a.impactLevel = "major" \/ a.breakingChanges \/ a.changeType = "feature"

\* processUpdateWithCollections, "isMajorChange"
IsMajorChange(a) ==
    \/ a.impactLevel = "major"
    \/ a.breakingChanges
    \/ (a.changeType = "feature" /\ a.publicAPIChanges)

\* the guard of each targeted mutation of processUpdateWithCollections
Wanted(m, a, ss) ==
    CASE m = "docHistory" -> "docHistory" \in ss.collectionIds
      [] m = "releaseNotes" -> "releaseNotes" \in ss.collectionIds /\ IsMajorChange(a)
      [] m = "adrs" -> "adrs" \in ss.collectionIds /\ a.requiresADR
      [] m = "engineeringTasks" -> "engineeringTasks" \in ss.collectionIds /\ a.followUpTasks > 0
      [] m = "mainDoc" -> Truthy(ss.documentId)

RECURSIVE NextMutation(_, _, _)
\* the first mutation at position j or later whose guard holds, "done" if none
NextMutation(j, a, ss) ==
    IF j > Len(MutationOrder) THEN "done"
    ELSE IF Wanted(MutationOrder[j], a, ss) THEN MutationOrder[j]
         ELSE NextMutation(j + 1, a, ss)

Position(m) == CHOOSE j \in 1..Len(MutationOrder) : MutationOrder[j] = m

\* end of one turn of "for (const pr of newPRs)": the PR is pushed to
\* processedPRs, or the catch logs its failure
EndPR(tk, ok) ==
    LET n == tk.newPRs[tk.k]
        pcNext == IF tk.k = Len(tk.newPRs) THEN "commits" ELSE "prLoop" IN
    IF ok THEN [tk EXCEPT !.processedPRs = Append(@, n), !.k = @ + 1, !.pc = pcNext]
          ELSE [tk EXCEPT !.failedPRs = @ \cup {n}, !.k = @ + 1, !.pc = pcNext]

\* "if (collectionIds)" of the PR loop, then getPRData: its reply arrives
PRFetch(t) ==
    LET tk == tasks[t]
        began == [tk EXCEPT !.upd = [NoUpd EXCEPT !.path =
                     IF tk.syncState.collectionIds # {} THEN "collections" ELSE "legacy"]] IN
    /\ tk.pc = "prLoop"
    /\ \E threw \in BOOLEAN :
        IF threw
        THEN /\ tasks' = [tasks EXCEPT ![t] = EndPR(began, FALSE)]
             /\ hist' = [NoHist EXCEPT !.op = "prFailed", !.task = began,
                                       !.before = memoryStore[tk.repo]]
        ELSE /\ tasks' = [tasks EXCEPT ![t] = [began EXCEPT !.pc = "prAnalyze"]]
             /\ hist' = [NoHist EXCEPT !.op = "prFetched"]
    /\ UNCHANGED <<timers, storageFile, commits, now, isRunning, intervalId, nextFire, repoStoreAttached,
                   repoConfigStore, lastSyncTimes, memoryStore, remoteDoc,
                   nextDocId, craftState, merged>>

\* llm.analyzePRChanges returns: the oracle's analysis, or the fallback when
\* the call threw or the reply held no JSON; then the code up to the next await
PRAnalyze(t) ==
    LET tk == tasks[t] IN
    /\ tk.pc = "prAnalyze"
    /\ \E a \in Analyses \cup {FallbackAnalysis} :
        LET got == [tk EXCEPT !.upd.analysis = a]
            first == NextMutation(1, a, tk.syncState) IN
        IF tk.upd.path = "legacy"
        THEN /\ tasks' = [tasks EXCEPT ![t] = [got EXCEPT !.pc = "prLegacy"]]
             /\ hist' = [NoHist EXCEPT !.op = "prAnalyzed"]
        ELSE IF first = "done"
        THEN /\ tasks' = [tasks EXCEPT ![t] = EndPR(got, TRUE)]
             /\ hist' = [NoHist EXCEPT !.op = "prDone", !.task = got,
                                       !.before = memoryStore[tk.repo]]
        ELSE /\ tasks' = [tasks EXCEPT ![t] = [got EXCEPT !.pc = first]]
             /\ hist' = [NoHist EXCEPT !.op = "prAnalyzed"]
    /\ UNCHANGED <<timers, storageFile, commits, now, isRunning, intervalId, nextFire, repoStoreAttached,
                   repoConfigStore, lastSyncTimes, memoryStore, remoteDoc,
                   nextDocId, craftState, merged>>

\* one targeted mutation of processUpdateWithCollections returns.  The add*
\* methods await initialize() outside their try: the first call of a fresh
\* updater connects to the workspace and its failure propagates; a failed
\* collectionItems_add is caught and logged.  updateMainDocumentSections
\* catches everything.
PRMutate(t) ==
    LET tk == tasks[t]
        m == tk.pc
        a == tk.upd.analysis
        n == IF m = "engineeringTasks" THEN a.followUpTasks ELSE 1 IN
    /\ tk.pc \in MutationPcs
    /\ \E out \in {"ok", "callFailed", "initThrew"} :
        LET tried == [tk EXCEPT !.upd.attempted = Append(@, m),
                                !.initialized = @ \/ (m # "mainDoc" /\ out # "initThrew"),
                                !.upd.items = IF out = "ok" /\ m # "mainDoc"
                                              THEN [@ EXCEPT ![m] = @ + n] ELSE @,
                                !.upd.mainDoc = @ \/ (out = "ok" /\ m = "mainDoc")]
            next == NextMutation(Position(m) + 1, a, tk.syncState) IN
        /\ out = "initThrew" => (m # "mainDoc" /\ ~tk.initialized)
        /\ IF out = "initThrew"
           THEN /\ tasks' = [tasks EXCEPT ![t] = EndPR(tried, FALSE)]
                /\ hist' = [NoHist EXCEPT !.op = "prFailed", !.task = tried,
                                          !.before = memoryStore[tk.repo]]
           ELSE IF next = "done"
           THEN /\ tasks' = [tasks EXCEPT ![t] = EndPR(tried, TRUE)]
                /\ hist' = [NoHist EXCEPT !.op = "prDone", !.task = tried,
                                          !.before = memoryStore[tk.repo]]
           ELSE /\ tasks' = [tasks EXCEPT ![t] = [tried EXCEPT !.pc = next]]
                /\ hist' = [NoHist EXCEPT !.op = "prMutated", !.task = tried]
    /\ UNCHANGED <<timers, storageFile, commits, now, isRunning, intervalId, nextFire, repoStoreAttached,
                   repoConfigStore, lastSyncTimes, memoryStore, remoteDoc,
                   nextDocId, craftState, merged>>

\* legacy processUpdate after the analysis: state, snapshot, markdown
\* update, then updateState(state, prNumber); no collection is touched
PRLegacy(t) ==
    LET tk == tasks[t]
        r == tk.repo
        n == tk.newPRs[tk.k] IN
    /\ tk.pc = "prLegacy"
    /\ \E ok \in BOOLEAN :
        /\ tasks' = [tasks EXCEPT ![t] = EndPR(tk, ok)]
        /\ craftState' =
              IF ok /\ craftState[r].exists
              THEN [craftState EXCEPT ![r] =
                      [exists |-> TRUE, lastProcessedPR |-> n, lastSync |-> now]]
              ELSE craftState
        /\ hist' = [NoHist EXCEPT !.op = IF ok THEN "prDone" ELSE "prFailed",
                                  !.task = tk, !.before = memoryStore[r]]
    /\ UNCHANGED <<timers, storageFile, commits, now, isRunning, intervalId, nextFire, repoStoreAttached,
                   repoConfigStore, lastSyncTimes, memoryStore, remoteDoc,
                   nextDocId, merged>>

\* One cycle of the started service over a connected repository, with the
\* processing of each PR followed call by call.
InitPR ==
    /\ Init
    /\ \A r \in Repos : memoryStore[r].present

NextPR ==
    \/ Idle /\ Start
    \/ \E t \in TaskIds : DocCheck(t)
    \/ \E t \in TaskIds : GetState(t)
    \/ \E t \in TaskIds : ListPRs(t)
    \/ \E t \in TaskIds : PRFetch(t)
    \/ \E t \in TaskIds : PRAnalyze(t)
    \/ \E t \in TaskIds : PRMutate(t)
    \/ \E t \in TaskIds : PRLegacy(t)
    \/ \E t \in TaskIds : CommitSweep(t)
    \/ \E t \in TaskIds : CursorWrite(t)
    \/ \E r \in Repos : Idle /\ MergePR(r)

SpecPR == InitPR /\ [][NextPR]_vars

\* ------------------------------------------------ a cycle over two connections
RepoOrderTwo == <<"o/r", "o/s">>
ReposTwo == {RepoOrderTwo[i] : i \in 1..Len(RepoOrderTwo)}

\* startServer with two rows in the database, both with a token and an
\* endpoint, the service with or without the store
InitTwo ==
    /\ now = 1
    /\ isRunning = FALSE
    /\ intervalId = FALSE
    /\ timers = 0
    /\ nextFire = 0
    /\ repoStoreAttached \in BOOLEAN
    /\ memoryStore = [r \in ReposTwo |-> LoadedRow]
    /\ repoConfigStore = RepoOrderTwo
    /\ lastSyncTimes = [r \in ReposTwo |-> Undef]
    /\ remoteDoc = [r \in ReposTwo |-> 1]
    /\ nextDocId = 2
    /\ craftState = [r \in ReposTwo |-> NoCraftState]
    /\ merged = [r \in ReposTwo |-> {}]
    /\ storageFile = [r \in ReposTwo |-> NoRecord]
    /\ commits = [r \in ReposTwo |-> {}]
    /\ tasks = [t \in TaskIds |-> IdleTask]
    /\ hist = NoHist

\* the initial cycle of start() visits both, one after the other
NextTwo ==
    \/ Idle /\ Start
    \/ \E t \in TaskIds : DocCheck(t)
    \/ \E t \in TaskIds : GetState(t)
    \/ \E t \in TaskIds : ListPRs(t)
    \/ \E t \in TaskIds : ProcessPR(t)
    \/ \E t \in TaskIds : CommitSweep(t)
    \/ \E t \in TaskIds : CursorWrite(t)
    \/ \E r \in ReposTwo : MergePR(r)
    \/ \E r \in ReposTwo : DeleteDoc(r)

SpecTwo == InitTwo /\ [][NextTwo]_vars

\* ------------------------------------------------------ the auto-sync toggle
\* POST /sync/auto-sync {sessionId, repoFullName, enabled}: flips the
\* autoSyncEnabled flag of the connection record
ToggleAutoSync(r) ==
    /\ memoryStore[r].present
    /\ \E enabled \in BOOLEAN :
        /\ enabled # memoryStore[r].autoSyncEnabled
        /\ memoryStore' = [memoryStore EXCEPT ![r].autoSyncEnabled = enabled]
    /\ hist' = [NoHist EXCEPT !.op = "toggle"]
    /\ UNCHANGED <<timers, storageFile, commits, now, isRunning, intervalId, nextFire, repoStoreAttached,
                   repoConfigStore, lastSyncTimes, remoteDoc, nextDocId,
                   craftState, merged, tasks>>

\* The started service with its timer and the clock, over a connection
\* whose flag the user flips.
InitToggle ==
    /\ Init
    /\ \A r \in Repos : memoryStore[r].present /\ ~craftState[r].exists

NextToggle ==
    \/ Start
    \/ TimerFire
    \/ Tick
    \/ \E r \in Repos : ToggleAutoSync(r)
    \/ \E t \in TaskIds : DocCheck(t)
    \/ \E t \in TaskIds : GetState(t)
    \/ \E t \in TaskIds : ListPRs(t)
    \/ \E t \in TaskIds : ProcessPR(t)
    \/ \E t \in TaskIds : CommitSweep(t)
    \/ \E t \in TaskIds : CursorWrite(t)
    \/ \E r \in Repos : MergePR(r)

SpecToggle == InitToggle /\ [][NextToggle]_vars

\* ------------------------------------------------- collection-id extraction
\* the extraction trying the plain id first
ExtractIdFirst(b) ==
    IF Truthy(b.id) THEN b.id
    ELSE IF Truthy(b.collectionBlockId) THEN b.collectionBlockId
    ELSE IF Truthy(b.collections0) THEN b.collections0
    ELSE Null

\* CraftAdvancedIntegration.extractCollectionId(result)
ExtractCollectionId(b) ==
    IF Truthy(b.collectionBlockId) THEN b.collectionBlockId
    ELSE IF Truthy(b.collections0) THEN b.collections0
    ELSE IF Truthy(b.id) THEN b.id
    ELSE IF b.kind = "array" /\ Truthy(b.first) THEN b.first
    ELSE IF Truthy(b.result) THEN b.result
    ELSE IF Truthy(b.collection) THEN b.collection
    ELSE IF b.kind = "string" THEN b.text
    ELSE Null

\* a create*Collection method calls collections_create and awaits the reply
CreateCollection(r) ==
    /\ Free # {}
    /\ tasks' = [tasks EXCEPT ![FirstFree] =
            [IdleTask EXCEPT !.kind = "collection", !.pc = "collectionsCreate", !.repo = r]]
    /\ hist' = [NoHist EXCEPT !.op = "collectionsCreate"]
    /\ UNCHANGED <<timers, storageFile, commits, now, isRunning, intervalId, nextFire, repoStoreAttached,
                   repoConfigStore, lastSyncTimes, memoryStore, remoteDoc,
                   nextDocId, craftState, merged>>

\* the reply arrives and the collection id is extracted from it
CollectionReply(t) ==
    LET tk == tasks[t] IN
    /\ tk.pc = "collectionsCreate"
    /\ \E b \in Replies :
        /\ tasks' = [tasks EXCEPT ![t] = IdleTask]
        /\ hist' = [NoHist EXCEPT !.op = "extracted",
                                  !.task = [tk EXCEPT !.reply = b,
                                                      !.extracted = ExtractCollectionId(b)]]
    /\ UNCHANGED <<timers, storageFile, commits, now, isRunning, intervalId, nextFire, repoStoreAttached,
                   repoConfigStore, lastSyncTimes, memoryStore, remoteDoc,
                   nextDocId, craftState, merged>>

\* Collections created one after another for a connected repository, each
\* reply drawn from the shapes above.
InitExtract ==
    /\ Init
    /\ repoStoreAttached
    /\ \A r \in Repos : memoryStore[r].present /\ ~craftState[r].exists

NextExtract ==
    \/ \E r \in Repos : Idle /\ CreateCollection(r)
    \/ \E t \in TaskIds : CollectionReply(t)

SpecExtract == InitExtract /\ [][NextExtract]_vars

\* ------------------------------------------- createEngineeringBrain, call by call
\* the collections in the order createEngineeringBrain creates them
CollectionOrder == <<"releaseNotes", "adrs", "engineeringTasks", "docHistory">>

BrainPcs == {"bDocCreate", "bContent", "bTechSpec", "bColl", "bItems", "bQuestions"}

\* the check left out: whatever was extracted counts as an id
CollectionCreatedAlways(id) == TRUE

\* create*Collection, "if (!collectionId) throw new Error(...)"
CollectionCreated(id) == Truthy(id)

\* the request ends in the route's catch: 500, nothing stored
Analyze500(t, tk) ==
    /\ tasks' = [tasks EXCEPT ![t] = IdleTask]
    /\ hist' = [NoHist EXCEPT !.op = "analyze500", !.task = tk,
                              !.before = memoryStore[tk.repo]]

\* createEngineeringBrain after the items of collection number tk.ci: the
\* next create*Collection, or the return to the route, which calls
\* repoStore.set and awaits
AfterCollection(t, tk) ==
    IF tk.ci = Len(CollectionOrder)
    THEN /\ tasks' = [tasks EXCEPT ![t] = [tk EXCEPT !.pc = "aSet"]]
         /\ hist' = [NoHist EXCEPT !.op = "analyzeGenerated", !.task = tk]
    ELSE /\ tasks' = [tasks EXCEPT ![t] =
                [tk EXCEPT !.pc = "bColl", !.ci = @ + 1,
                           !.calls = Append(@, Call("collections_create",
                                                    CollectionOrder[tk.ci + 1]))]]
         /\ hist' = [NoHist EXCEPT !.op = "brainStep", !.task = tk]

\* analyzeAndGenerate up to the reply of documentExists inside
\* createEngineeringBrain; the oracle's repository analysis carries q open
\* questions
BrainBegin(t) ==
    LET tk == tasks[t]
        r == tk.repo IN
    /\ tk.pc = "aGenerate"
    /\ \E threw \in BOOLEAN, q \in 0..MaxQuestions :
        IF threw
        THEN q = 0 /\ Analyze500(t, tk)
        ELSE IF remoteDoc[ToLowerCase(r)] # 0
        THEN /\ q = 0
             /\ tasks' = [tasks EXCEPT ![t] =
                    [tk EXCEPT !.pc = "aSet", !.pending = RouteRecord(remoteDoc[ToLowerCase(r)], tk.session)]]
             /\ hist' = [NoHist EXCEPT !.op = "analyzeGenerated", !.task = tk]
        ELSE /\ tasks' = [tasks EXCEPT ![t] =
                    [tk EXCEPT !.pc = "bDocCreate", !.openQuestions = q,
                               !.calls = <<Call("documents_create", "")>>]]
             /\ hist' = [NoHist EXCEPT !.op = "brainStep"]
    /\ UNCHANGED <<timers, storageFile, commits, now, isRunning, intervalId, nextFire, repoStoreAttached,
                   repoConfigStore, lastSyncTimes, memoryStore, remoteDoc,
                   nextDocId, craftState, merged>>

\* the reply of the workspace call a materialisation is waiting for
BrainStep(t) ==
    LET tk == tasks[t]
        r == tk.repo
        c == IF tk.ci = 0 THEN "" ELSE CollectionOrder[tk.ci] IN
    /\ tk.pc \in BrainPcs
    /\ \E threw \in BOOLEAN, b \in IF tk.pc = "bColl" THEN Replies ELSE {NoReply} :
        LET id == ExtractCollectionId(b)
            seen == [tk EXCEPT !.reply = b, !.extracted = IF tk.pc = "bColl" THEN id ELSE Undef] IN
        /\ threw => b \in {NoReply, CHOOSE x \in Replies : TRUE}
        /\ IF threw
           THEN Analyze500(t, tk) /\ UNCHANGED <<remoteDoc, nextDocId>>
           ELSE CASE tk.pc = "bDocCreate" ->
                       /\ nextDocId <= MaxDocs
                       /\ remoteDoc' = [remoteDoc EXCEPT ![ToLowerCase(r)] = nextDocId]
                       /\ nextDocId' = nextDocId + 1
                       /\ tasks' = [tasks EXCEPT ![t] =
                              [tk EXCEPT !.pc = "bContent", !.created = 1,
                                         !.pending = RouteRecord(nextDocId, tk.session),
                                         !.calls = Append(@, Call("markdown_add", ""))]]
                       /\ hist' = [NoHist EXCEPT !.op = "brainStep", !.task = tk]
                  [] tk.pc = "bContent" ->
                       /\ tasks' = [tasks EXCEPT ![t] =
                              [tk EXCEPT !.pc = "bTechSpec",
                                         !.calls = Append(@, Call("markdown_add", ""))]]
                       /\ hist' = [NoHist EXCEPT !.op = "brainStep", !.task = tk]
                       /\ UNCHANGED <<remoteDoc, nextDocId>>
                  [] tk.pc = "bTechSpec" ->
                       /\ AfterCollection(t, tk)
                       /\ UNCHANGED <<remoteDoc, nextDocId>>
                  [] tk.pc = "bColl" ->
                       /\ IF CollectionCreated(id)
                          THEN /\ tasks' = [tasks EXCEPT ![t] =
                                      [tk EXCEPT !.pc = "bItems", !.got[c] = id,
                                                 !.calls = Append(@, Call("collectionItems_add", c))]]
                               /\ hist' = [NoHist EXCEPT !.op = "brainStep", !.task = seen]
                          ELSE Analyze500(t, seen)
                       /\ UNCHANGED <<remoteDoc, nextDocId>>
                  [] tk.pc = "bItems" ->
                       /\ IF c = "engineeringTasks" /\ tk.openQuestions > 0
                          THEN /\ tasks' = [tasks EXCEPT ![t] =
                                      [tk EXCEPT !.pc = "bQuestions",
                                                 !.calls = Append(@, Call("collectionItems_add", c))]]
                               /\ hist' = [NoHist EXCEPT !.op = "brainStep", !.task = tk]
                          ELSE AfterCollection(t, tk)
                       /\ UNCHANGED <<remoteDoc, nextDocId>>
                  [] tk.pc = "bQuestions" ->
                       /\ AfterCollection(t, tk)
                       /\ UNCHANGED <<remoteDoc, nextDocId>>
    /\ UNCHANGED <<timers, storageFile, commits, now, isRunning, intervalId, nextFire, repoStoreAttached,
                   repoConfigStore, lastSyncTimes, memoryStore, craftState, merged>>

\* Analyze requests one after another on a server whose sync service is
\* not running, with the materialisation followed call by call.
InitBrain ==
    /\ Init
    /\ repoStoreAttached
    /\ \A r \in Repos : ~memoryStore[r].present /\ ~craftState[r].exists

NextBrain ==
    \/ \E r \in Repos : Idle /\ AnalyzeRequest(r)
    \/ \E t \in TaskIds : AnalyzeSession(t)
    \/ \E t \in TaskIds : AnalyzeProbe(t)
    \/ \E t \in TaskIds : BrainBegin(t)
    \/ \E t \in TaskIds : BrainStep(t)
    \/ \E t \in TaskIds : AnalyzeStore(t)
    \/ \E r \in Repos : Idle /\ Disconnect(r)

SpecBrain == InitBrain /\ [][NextBrain]_vars

\* ------------------------------------------- one repository, two spellings
\* The same GitHub repository named with two spellings that differ only in
\* letter case, as they arrive in the owner and repo fields of a request.
ReposCase == {"o/r", "O/R"}

\* An empty store and an empty workspace; the store is attached to the app.
InitCase ==
    /\ now = 1
    /\ isRunning = FALSE
    /\ intervalId = FALSE
    /\ timers = 0
    /\ nextFire = 0
    /\ repoStoreAttached = TRUE
    /\ memoryStore = [r \in ReposCase |-> NoRecord]
    /\ repoConfigStore = <<>>
    /\ lastSyncTimes = [r \in ReposCase |-> Undef]
    /\ remoteDoc = [r \in ReposCase |-> 0]
    /\ nextDocId = 1
    /\ craftState = [r \in ReposCase |-> NoCraftState]
    /\ merged = [r \in ReposCase |-> {}]
    /\ storageFile = [r \in ReposCase |-> NoRecord]
    /\ commits = [r \in ReposCase |-> {}]
    /\ tasks = [t \in TaskIds |-> IdleTask]
    /\ hist = NoHist

\* POST /sync/analyze and DELETE /sync/disconnect under either spelling,
\* one request at a time.
NextCase ==
    \/ \E r \in ReposCase : Idle /\ AnalyzeRequest(r)
    \/ \E t \in TaskIds : AnalyzeSession(t)
    \/ \E t \in TaskIds : AnalyzeProbe(t)
    \/ \E t \in TaskIds : AnalyzeGenerate(t)
    \/ \E t \in TaskIds : AnalyzeStore(t)
    \/ \E r \in ReposCase : Idle /\ Disconnect(r)

SpecCase == InitCase /\ [][NextCase]_vars

\* ------------------------------------------------ the Connection API
\* The requests of the Connection API one after another over an attached
\* store, each with its validation and session steps, while PRs merge.
InitContract ==
    /\ Init
    /\ repoStoreAttached

NextContract ==
    \/ \E r \in Repos : Idle /\ AnalyzeRequest(r)
    \/ \E t \in TaskIds : AnalyzeSession(t)
    \/ \E t \in TaskIds : AnalyzeProbe(t)
    \/ \E t \in TaskIds : AnalyzeGenerate(t)
    \/ \E t \in TaskIds : AnalyzeStore(t)
    \/ \E r \in Repos : Idle /\ ManualRequest(r)
    \/ \E t \in TaskIds : ManualSession(t)
    \/ \E t \in TaskIds : GetState(t)
    \/ \E t \in TaskIds : ListPRs(t)
    \/ \E t \in TaskIds : ProcessPR(t)
    \/ \E t \in TaskIds : CommitSweep(t)
    \/ Idle /\ ConnectedRequest
    \/ \E t \in TaskIds : ConnectedSession(t)
    \/ \E t \in TaskIds : ConnectedVerify(t)
    \/ \E r \in Repos : Idle /\ DisconnectRequest(r)
    \/ \E t \in TaskIds : DisconnectSession(t)
    \/ \E r \in Repos : Idle /\ MergePR(r)

SpecContract == InitContract /\ [][NextContract]_vars

\* ------------------------------------------------------ webhook deliveries
\* Deliveries to POST /webhook/github one after another, with any body,
\* any header and the secret set or not.
InitWebhook ==
    /\ Init
    /\ repoStoreAttached

NextWebhook ==
    \/ \E r \in Repos : Idle /\ WebhookGitHub(r)
    \/ \E t \in TaskIds : WebhookUpdate(t)

SpecWebhook == InitWebhook /\ [][NextWebhook]_vars

\* ------------------------------------------------------ oracle replies
\* The oracle client's parser called once, over every reply text that
\* opens an object and goes on for at most MaxBody characters.
InitRepair ==
    /\ now = 1
    /\ isRunning = FALSE
    /\ intervalId = FALSE
    /\ timers = 0
    /\ nextFire = 0
    /\ repoStoreAttached = TRUE
    /\ memoryStore = [r \in Repos |-> NoRecord]
    /\ repoConfigStore = <<>>
    /\ lastSyncTimes = [r \in Repos |-> Undef]
    /\ remoteDoc = [r \in Repos |-> 0]
    /\ nextDocId = 1
    /\ craftState = [r \in Repos |-> NoCraftState]
    /\ merged = [r \in Repos |-> {}]
    /\ storageFile = [r \in Repos |-> NoRecord]
    /\ commits = [r \in Repos |-> {}]
    /\ \E body \in BodiesOf(MaxBody) :
        tasks = [t \in TaskIds |->
                    IF t = 1
                    THEN [IdleTask EXCEPT !.kind = "parse", !.pc = "repair",
                                          !.jsonStr = JsonOpening \o body]
                    ELSE IdleTask]
    /\ hist = NoHist

NextRepair ==
    \/ \E t \in TaskIds : RepairReply(t)
    \/ \E t \in TaskIds : ParseReply(t)

SpecRepair == InitRepair /\ [][NextRepair]_vars

\* ------------------------------------------------ the Tech Stack upsert
\* One call of updateMainDocument(documentId, {sectionToUpdate: 'Tech
\* Stack', deletePattern: '## Tech Stack', newContent, appendIfNotFound})
\* over every document of at most MaxBlocks blocks.
InitMainDoc ==
    /\ now = 1
    /\ isRunning = FALSE
    /\ intervalId = FALSE
    /\ timers = 0
    /\ nextFire = 0
    /\ repoStoreAttached = TRUE
    /\ memoryStore = [r \in Repos |-> LoadedRow]
    /\ repoConfigStore = RepoOrder
    /\ lastSyncTimes = [r \in Repos |-> Undef]
    /\ remoteDoc = [r \in Repos |-> 1]
    /\ nextDocId = 2
    /\ craftState = [r \in Repos |-> NoCraftState]
    /\ merged = [r \in Repos |-> {}]
    /\ storageFile = [r \in Repos |-> NoRecord]
    /\ commits = [r \in Repos |-> {}]
    /\ \E d \in DocsOf(MaxBlocks) :
        tasks = [t \in TaskIds |->
                    IF t = 1
                    THEN [IdleTask EXCEPT !.kind = "mainDoc", !.pc = "mdRead", !.doc = d]
                    ELSE IdleTask]
    /\ hist = NoHist

NextMainDoc ==
    \/ \E t \in TaskIds : MainDocRead(t)
    \/ \E t \in TaskIds : MainDocDelete(t)
    \/ \E t \in TaskIds : MainDocWrite(t)

SpecMainDoc == InitMainDoc /\ [][NextMainDoc]_vars

\* ------------------------------------------ two analyze requests at once
\* Two POST /sync/analyze requests for one unconnected repository, their
\* awaits interleaved in every way, followed up to the replies of their
\* documents_create calls.
InitRace ==
    /\ now = 1
    /\ isRunning = FALSE
    /\ intervalId = FALSE
    /\ timers = 0
    /\ nextFire = 0
    /\ repoStoreAttached = TRUE
    /\ memoryStore = [r \in Repos |-> NoRecord]
    /\ repoConfigStore = <<>>
    /\ lastSyncTimes = [r \in Repos |-> Undef]
    /\ remoteDoc = [r \in Repos |-> 0]
    /\ nextDocId = 1
    /\ craftState = [r \in Repos |-> NoCraftState]
    /\ merged = [r \in Repos |-> {}]
    /\ storageFile = [r \in Repos |-> NoRecord]
    /\ commits = [r \in Repos |-> {}]
    /\ tasks = [t \in TaskIds |-> IdleTask]
    /\ hist = NoHist

NextRace ==
    \/ \E r \in Repos : AnalyzeRequest(r)
    \/ \E t \in TaskIds : AnalyzeSession(t)
    \/ \E t \in TaskIds : AnalyzeProbe(t)
    \/ \E t \in TaskIds : BrainBegin(t)
    \/ \E t \in TaskIds : tasks[t].pc = "bDocCreate" /\ BrainStep(t)

SpecRace == InitRace /\ [][NextRace]_vars

\* ------------------------------------------------- the store, called directly
\* RepositoryStore.updateMetadata(repoFullName, {lastSyncedAt, lastProcessedPR})
\* up to the await inside set(): "not found" is thrown for a missing
\* record, otherwise the merged record waits for the write
UpdateMetadata(r) ==
    /\ \E pr \in 1..MaxPR :
        IF ~memoryStore[r].present
        THEN /\ tasks' = tasks
             /\ hist' = [NoHist EXCEPT !.op = "updateNotFound",
                                       !.before = memoryStore[r]]
        ELSE /\ Free # {}
             /\ tasks' = [tasks EXCEPT ![FirstFree] =
                    [IdleTask EXCEPT !.kind = "update", !.pc = "metaWrite", !.repo = r,
                                     !.pending = [memoryStore[r] EXCEPT
                                                     !.lastSyncedAt = now,
                                                     !.lastProcessedPR = pr]]]
             /\ hist' = [NoHist EXCEPT !.op = "updateBegin"]
    /\ UNCHANGED <<timers, storageFile, commits, now, isRunning, intervalId, nextFire, repoStoreAttached,
                   repoConfigStore, lastSyncTimes, memoryStore, remoteDoc,
                   nextDocId, craftState, merged>>

\* RepositoryStore.set after its await, for a direct updateMetadata call
StoreSet(t) ==
    LET tk == tasks[t]
        r == tk.repo IN
    /\ tk.pc = "metaWrite"
    /\ memoryStore' = [memoryStore EXCEPT ![r] = tk.pending]
    /\ tasks' = [tasks EXCEPT ![t] = IdleTask]
    /\ hist' = [NoHist EXCEPT !.op = "updateMetadata", !.task = tk,
                              !.before = memoryStore[r]]
    /\ UNCHANGED <<timers, storageFile, commits, now, isRunning, intervalId, nextFire, repoStoreAttached,
                   repoConfigStore, lastSyncTimes, remoteDoc, nextDocId,
                   craftState, merged>>

\* The repository store under direct calls of its cursor update, one call
\* at a time, while the clock runs.
InitStore ==
    /\ Init
    /\ repoStoreAttached
    /\ \A r \in Repos : ~craftState[r].exists

NextStore ==
    \/ \E r \in Repos : Idle /\ UpdateMetadata(r)
    \/ \E t \in TaskIds : StoreSet(t)
    \/ Tick

SpecStore == InitStore /\ [][NextStore]_vars

\* ----------------------------------------------------- start() and stop()
\* The service as startServer constructs it under any sequence of start()
\* and stop() calls, with its timer, its cycles and the clock.  No pull
\* request is merged.
InitStartStop == InitWired

NextStartStop ==
    \/ Start
    \/ Stop
    \/ TimerFire
    \/ \E t \in TaskIds : DocCheck(t)
    \/ \E t \in TaskIds : GetState(t)
    \/ \E t \in TaskIds : ListPRs(t)
    \/ \E t \in TaskIds : CommitSweep(t)
    \/ Tick

SpecStartStop == InitStartStop /\ [][NextStartStop]_vars

\* ------------------------------------------------ cycles that keep running
\* A service constructed with the store syncs a connected repository again
\* and again, one sync at a time, while pull requests are merged in any
\* order.  The listing never throws and the processor never fails; the
\* sync state comes from the store's record.
InitLive ==
    /\ InitStore
    /\ \A r \in Repos : memoryStore[r].present

ListPRsOk(t) == ListPRs(t) /\ hist'.op = "listPRs"

ProcessPROk(t) == ProcessPR(t) /\ tasks'[t].failedPRs = tasks[t].failedPRs

NextLive ==
    \/ \E r \in Repos : Idle /\ SyncSingleRepo(r)
    \/ \E t \in TaskIds : ListPRsOk(t)
    \/ \E t \in TaskIds : ProcessPROk(t)
    \/ \E t \in TaskIds : CommitSweep(t)
    \/ \E t \in TaskIds : CursorWrite(t)
    \/ \E r \in Repos : MergePR(r)

\* every sync that can begin does begin, and every step of a sync that is
\* waiting for its reply gets it
FairLive ==
    /\ WF_vars(\E r \in Repos : Idle /\ SyncSingleRepo(r))
    /\ \A t \in TaskIds :
        /\ WF_vars(ListPRsOk(t))
        /\ WF_vars(ProcessPROk(t))
        /\ WF_vars(CommitSweep(t))
        /\ WF_vars(CursorWrite(t))

SpecLive == InitLive /\ [][NextLive]_vars /\ FairLive

\* ------------------------------------------------ commits between cycles
\* A service constructed with the store syncs a connected repository again
\* and again, one sync at a time, while the clock runs and direct commits
\* land on the branch.  No pull request is merged and no listing throws.
InitCommits == InitLive

CommitListingOk(t) == CommitListing(t) /\ ~tasks'[t].commitFailed

NextCommits ==
    \/ \E r \in Repos : Idle /\ SyncSingleRepo(r)
    \/ \E t \in TaskIds : ListPRsOk(t)
    \/ \E t \in TaskIds : CommitListingOk(t)
    \/ \E t \in TaskIds : CommitWork(t)
    \/ \E t \in TaskIds : CursorWrite(t)
    \/ \E r \in Repos : Commit(r)
    \/ Tick

\* every sync that can begin does begin, and every step of a sync that is
\* waiting for its reply gets it
FairCommits ==
    /\ WF_vars(\E r \in Repos : Idle /\ SyncSingleRepo(r))
    /\ \A t \in TaskIds :
        /\ WF_vars(ListPRsOk(t))
        /\ WF_vars(CommitListingOk(t))
        /\ WF_vars(CommitWork(t))
        /\ WF_vars(CursorWrite(t))

SpecCommits == InitCommits /\ [][NextCommits]_vars /\ FairCommits

\* --------------------------------------- who monitors, who may disconnect
\* POST /webhook/register: 400 without the three fields, otherwise
\* repoStore.set(repoFullName, {githubToken, craftMcpUrl}); the sync
\* service is not told
WebhookRegister(r) ==
    /\ \E fieldsOk \in BOOLEAN, s \in Sessions :
        IF fieldsOk
        THEN /\ memoryStore' = [memoryStore EXCEPT ![r] =
                    [NoRecord EXCEPT !.present = TRUE, !.githubToken = s.accessToken]]
             /\ hist' = [NoHist EXCEPT !.op = "webhookRegister", !.before = memoryStore[r]]
        ELSE /\ memoryStore' = memoryStore
             /\ hist' = [NoHist EXCEPT !.op = "register400"]
    /\ UNCHANGED <<timers, storageFile, commits, now, isRunning, intervalId, nextFire, repoStoreAttached,
                   repoConfigStore, lastSyncTimes, remoteDoc, nextDocId,
                   craftState, merged, tasks>>

\* DELETE /webhook/register/:repoFullName: repoStore.delete, 404 when the
\* store had no such record; the sync service is not told
WebhookUnregister(r) ==
    /\ memoryStore' = [memoryStore EXCEPT ![r] = NoRecord]
    /\ hist' = [NoHist EXCEPT !.op = IF memoryStore[r].present
                                      THEN "webhookUnregister" ELSE "unregister404",
                              !.before = memoryStore[r]]
    /\ UNCHANGED <<timers, storageFile, commits, now, isRunning, intervalId, nextFire, repoStoreAttached,
                   repoConfigStore, lastSyncTimes, remoteDoc, nextDocId,
                   craftState, merged, tasks>>

\* POST /auth/disconnect/:sessionId: 404 without the session, otherwise
\* removeRepository and repoStore.delete for every record that holds the
\* session's token
AuthDisconnect ==
    /\ \E session \in Sessions \cup {NoSession} :
        LET userRepos == {r \in DOMAIN memoryStore :
                             /\ session # NoSession
                             /\ memoryStore[r].present
                             /\ Owns(memoryStore[r], session)} IN
        /\ repoConfigStore' = SelectSeq(repoConfigStore, LAMBDA r : r \notin userRepos)
        /\ lastSyncTimes' = [r \in DOMAIN lastSyncTimes |->
                                IF r \in userRepos /\ r \in Range(repoConfigStore)
                                THEN Undef ELSE lastSyncTimes[r]]
        /\ memoryStore' = [r \in DOMAIN memoryStore |->
                              IF r \in userRepos THEN NoRecord ELSE memoryStore[r]]
        /\ hist' = [NoHist EXCEPT !.op = IF session = NoSession
                                          THEN "authDisconnect404" ELSE "authDisconnect",
                                  !.task = [IdleTask EXCEPT !.session = session]]
    /\ UNCHANGED <<timers, storageFile, commits, now, isRunning, intervalId, nextFire, repoStoreAttached,
                   remoteDoc, nextDocId, craftState, merged, tasks>>

\* The server as startServer wires it, under requests of any session made
\* one after another: analyse, list, disconnect, auth-disconnect, webhook
\* register and unregister, while documents are deleted in the workspace.
InitMonitor == InitWired

NextMonitor ==
    \/ \E r \in Repos, s \in Sessions : Idle /\ AnalyzeRequestAs(r, s)
    \/ \E t \in TaskIds : AnalyzeSession(t)
    \/ \E t \in TaskIds : AnalyzeProbe(t)
    \/ \E t \in TaskIds : AnalyzeGenerate(t)
    \/ \E t \in TaskIds : AnalyzeStore(t)
    \/ Idle /\ ConnectedRequest
    \/ \E t \in TaskIds : ConnectedSession(t)
    \/ \E t \in TaskIds : ConnectedVerify(t)
    \/ \E r \in Repos : Idle /\ DisconnectRequest(r)
    \/ \E t \in TaskIds : DisconnectSession(t)
    \/ Idle /\ AuthDisconnect
    \/ \E r \in Repos : Idle /\ WebhookRegister(r)
    \/ \E r \in Repos : Idle /\ WebhookUnregister(r)
    \/ \E r \in Repos : Idle /\ DeleteDoc(r)

SpecMonitor == InitMonitor /\ [][NextMonitor]_vars

\* ------------------------------------------- the store without a database
\* With dbEnabled false every mutator awaits saveToFile(), which writes
\* Object.fromEntries(this.memoryStore) to storagePath, and changes the
\* in-memory index after that await.

\* set(repoFullName, config) up to the end of saveToFile()
FileSet(r) ==
    /\ \E d \in 1..MaxDocs :
        tasks' = [tasks EXCEPT ![FirstFree] =
            [IdleTask EXCEPT !.kind = "store", !.pc = "fileSet", !.repo = r,
                             !.pending = [LoadedRow EXCEPT !.documentId = d]]]
    /\ storageFile' = memoryStore
    /\ hist' = [NoHist EXCEPT !.op = "saveToFile"]
    /\ UNCHANGED <<timers, commits, now, isRunning, intervalId, nextFire, repoStoreAttached,
                   repoConfigStore, lastSyncTimes, memoryStore, remoteDoc,
                   nextDocId, craftState, merged>>

\* updateMetadata(repoFullName, {lastSyncedAt, lastProcessedPR}) up to the end of the
\* saveToFile() of its set(); a missing record throws before any write
FileUpdateMetadata(r) ==
    /\ \E pr \in 1..MaxPR :
        IF ~memoryStore[r].present
        THEN /\ tasks' = tasks
             /\ storageFile' = storageFile
             /\ hist' = [NoHist EXCEPT !.op = "updateNotFound",
                                       !.before = memoryStore[r]]
        ELSE /\ tasks' = [tasks EXCEPT ![FirstFree] =
                    [IdleTask EXCEPT !.kind = "store", !.pc = "fileSet", !.repo = r,
                                     !.pending = [memoryStore[r] EXCEPT
                                                     !.lastSyncedAt = now,
                                                     !.lastProcessedPR = pr]]]
             /\ storageFile' = memoryStore
             /\ hist' = [NoHist EXCEPT !.op = "saveToFile"]
    /\ UNCHANGED <<timers, commits, now, isRunning, intervalId, nextFire, repoStoreAttached,
                   repoConfigStore, lastSyncTimes, memoryStore, remoteDoc,
                   nextDocId, craftState, merged>>

\* delete(repoFullName) up to the end of saveToFile()
FileDelete(r) ==
    /\ tasks' = [tasks EXCEPT ![FirstFree] =
            [IdleTask EXCEPT !.kind = "store", !.pc = "fileDelete", !.repo = r]]
    /\ storageFile' = memoryStore
    /\ hist' = [NoHist EXCEPT !.op = "saveToFile"]
    /\ UNCHANGED <<timers, commits, now, isRunning, intervalId, nextFire, repoStoreAttached,
                   repoConfigStore, lastSyncTimes, memoryStore, remoteDoc,
                   nextDocId, craftState, merged>>

\* clear() up to the end of saveToFile()
FileClear ==
    /\ tasks' = [tasks EXCEPT ![FirstFree] =
            [IdleTask EXCEPT !.kind = "store", !.pc = "fileClear"]]
    /\ storageFile' = memoryStore
    /\ hist' = [NoHist EXCEPT !.op = "saveToFile"]
    /\ UNCHANGED <<timers, commits, now, isRunning, intervalId, nextFire, repoStoreAttached,
                   repoConfigStore, lastSyncTimes, memoryStore, remoteDoc,
                   nextDocId, craftState, merged>>

\* the statement after "await this.saveToFile()" of set, delete and clear;
\* the call returns
FileReturn(t) ==
    LET tk == tasks[t] IN
    /\ tk.kind = "store"
    /\ memoryStore' =
          CASE tk.pc = "fileSet" -> [memoryStore EXCEPT ![tk.repo] = tk.pending]
            [] tk.pc = "fileDelete" -> [memoryStore EXCEPT ![tk.repo] = NoRecord]
            [] OTHER -> [r \in DOMAIN memoryStore |-> NoRecord]
    /\ tasks' = [tasks EXCEPT ![t] = IdleTask]
    /\ hist' = [NoHist EXCEPT !.op = "storeReturn", !.task = tk]
    /\ UNCHANGED <<timers, storageFile, commits, now, isRunning, intervalId, nextFire,
                   repoStoreAttached, repoConfigStore, lastSyncTimes, remoteDoc,
                   nextDocId, craftState, merged>>

\* a restart: a new RepositoryStore, whose initialize() reads the file into
\* the index (a missing file leaves the index empty)
Restart ==
    /\ memoryStore' = storageFile
    /\ hist' = [NoHist EXCEPT !.op = "initialize"]
    /\ UNCHANGED <<timers, storageFile, commits, now, isRunning, intervalId, nextFire,
                   repoStoreAttached, repoConfigStore, lastSyncTimes, remoteDoc,
                   nextDocId, craftState, merged, tasks>>

\* A file-backed store under calls made one after another, with restarts
\* between calls, while the clock runs.  No file exists at the first start.
InitFile ==
    /\ InitRace
    /\ storageFile = [r \in Repos |-> NoRecord]
    /\ commits = [r \in Repos |-> {}]

NextFile ==
    \/ \E r \in Repos : Idle /\ FileSet(r)
    \/ \E r \in Repos : Idle /\ FileUpdateMetadata(r)
    \/ \E r \in Repos : Idle /\ FileDelete(r)
    \/ Idle /\ FileClear
    \/ \E t \in TaskIds : FileReturn(t)
    \/ Idle /\ Restart
    \/ Tick

SpecFile == InitFile /\ [][NextFile]_vars

\* ------------------------------------------------------------- properties
\* a stored PR cursor as the number checkForUpdates takes it for (lastPR || 0)
PRNum(x) == IF Truthy(x) THEN x ELSE 0

\* the repository the last step worked on
HistRepo == hist.task.repo

\* the PRs a task has handed to the change processor so far, in order
Handed(tk) == IF tk.pc \in {"prLoop", "commits", "cursorWrite"}
              THEN SubSeq(tk.newPRs, 1, tk.k - 1) ELSE <<>>

\* C1: at most one checkForUpdates is in flight for a repository at any
\* moment.
C1_NoOverlap ==
    \A r \in Repos : Cardinality(InFlight(r)) <= 1

\* C2: when cycles run one after another, the lastProcessedPR stored after
\* a cycle that ended without error is at least the one stored before it
\* (the one the cycle read at its start, and the one its write replaced).
C2_CursorMonotonic ==
    hist.op = "cycleEnd" =>
        /\ PRNum(memoryStore[HistRepo].lastProcessedPR) >= PRNum(hist.before.lastProcessedPR)
        /\ PRNum(memoryStore[HistRepo].lastProcessedPR) >= PRNum(hist.task.syncState.lastProcessedPR)

\* a cycle has written a cursor that is strictly higher than the stored one
C2_Witness ==
    /\ hist.op = "cycleEnd"
    /\ hist.before.present
    /\ Truthy(hist.before.lastProcessedPR)
    /\ memoryStore[HistRepo].lastProcessedPR > hist.before.lastProcessedPR

\* C3: the cursor written at the end of a cycle is below the number of
\* every PR whose processing failed in that cycle.
C3_CursorBelowFailedPR ==
    hist.op = "cycleEnd" =>
        \A f \in hist.task.failedPRs : PRNum(memoryStore[HistRepo].lastProcessedPR) < f

\* C4: a cycle in which a PR or the commit sweep failed leaves lastSyncedAt
\* as it was.
C4_FailureKeepsLastSyncedAt ==
    (hist.op = "cycleEnd" /\ (hist.task.failedPRs # {} \/ hist.task.commitFailed)) =>
        memoryStore[HistRepo].lastSyncedAt = hist.before.lastSyncedAt

\* C5: when the remote document is absent at the start of a cycle, the
\* connection's record is deleted from the repository store and from the
\* scheduler's map.
C5_AbsentDocumentDeletesRecord ==
    hist.op = "reconcileAbsent" =>
        /\ ~memoryStore[HistRepo].present
        /\ HistRepo \notin Range(repoConfigStore)

\* C6: an analyze request that finds a record with a documentId answers
\* alreadyExists with the document id of the call that connected the
\* repository, creates nothing and leaves the record as it is.
C6_ReanalyzeIdempotent ==
    (/\ hist.op \in {"analyzeExisting", "analyzeCreated", "analyze500"}
     /\ hist.task.existing.present
     /\ Truthy(hist.task.existing.documentId)) =>
        /\ hist.op = "analyzeExisting"
        /\ hist.docId = hist.task.existing.connectedWith
        /\ hist.task.created = 0
        /\ memoryStore[HistRepo] = hist.before

\* a second analyze request was answered from the record, although the
\* remote document is gone and a creation would have been possible
C6_Witness ==
    /\ hist.op = "analyzeExisting"
    /\ hist.task.existing.present
    /\ Truthy(hist.task.existing.documentId)
    /\ remoteDoc[HistRepo] = 0
    /\ nextDocId <= MaxDocs

\* C7: a record with a documentId has all four collection ids.
C7_DocumentIdImpliesCollections ==
    \A r \in Repos :
        (memoryStore[r].present /\ Truthy(memoryStore[r].documentId)) =>
            memoryStore[r].collectionIds = CollectionKeys

\* C8: after a cycle whose PR listing held no new PR, lastProcessedPR is
\* what it was and lastSyncedAt is the time of the cycle.
C8_EmptySweepWritesCursor ==
    (hist.op = "cycleEnd" /\ Len(hist.task.newPRs) = 0 /\ hist.before.present) =>
        /\ memoryStore[HistRepo].lastProcessedPR = hist.before.lastProcessedPR
        /\ memoryStore[HistRepo].lastSyncedAt = now

\* C9: within a cycle the PRs are handed to the change processor in
\* strictly ascending order of number.
C9_AscendingOrder ==
    \A t \in TaskIds :
        LET h == Handed(tasks[t]) IN
        \A i, j \in 1..Len(h) : i < j => h[i] < h[j]

\* C10: a cycle for a connection whose lastSyncedAt is not set makes no
\* significance oracle call and no commit processor call, sets
\* lastSyncedAt, and without processed PRs leaves lastProcessedPR alone.
C10_FirstSweepSkipsCommits ==
    (/\ hist.op = "cycleEnd"
     /\ hist.before.present
     /\ ~Truthy(hist.before.lastSyncedAt)) =>
        /\ hist.task.oracleCalls = 0
        /\ hist.task.commitProc = 0
        /\ Truthy(memoryStore[HistRepo].lastSyncedAt)
        /\ (Len(hist.task.processedPRs) = 0 =>
               PRNum(memoryStore[HistRepo].lastProcessedPR) = PRNum(hist.before.lastProcessedPR))

\* C11: a timer cycle that was in flight when the scheduler was stopped
\* leaves lastSyncedAt as it was and does not put lastProcessedPR above the
\* highest PR it fully processed.
C11_StoppedCycleKeepsCursor ==
    (hist.op = "cycleEnd" /\ hist.task.kind = "timer" /\ ~isRunning) =>
        /\ memoryStore[HistRepo].lastSyncedAt = hist.before.lastSyncedAt
        /\ PRNum(memoryStore[HistRepo].lastProcessedPR) <=
               IF Len(hist.task.processedPRs) > 0
               THEN SeqMax(hist.task.processedPRs)
               ELSE PRNum(hist.before.lastProcessedPR)

\* C12: a cursor update that would decrease lastProcessedPR is rejected and
\* leaves the stored record unchanged.
C12_UpdateRejectsDecrease ==
    (/\ hist.op = "updateMetadata"
     /\ Truthy(hist.before.lastProcessedPR)
     /\ hist.task.pending.lastProcessedPR < hist.before.lastProcessedPR) =>
        memoryStore[HistRepo] = hist.before

\* the outcome of the PR whose processing the last step ended
HistUpd == hist.task.upd

C14_OneDocHistoryPerPR ==
    /\ hist.op = "prDone" =>
        /\ HistUpd.items["docHistory"] = 1
        /\ (HistUpd.analysis.requiresADR /\ HistUpd.analysis.followUpTasks = 1) =>
               (HistUpd.items["adrs"] = 1 /\ HistUpd.items["engineeringTasks"] = 1)
    /\ (/\ hist.op = "cycleEnd"
        /\ Len(hist.task.newPRs) > 0
        /\ hist.task.failedPRs = {}) =>
           memoryStore[HistRepo].lastProcessedPR = SeqMax(hist.task.newPRs)

\* C15: when the processing of a PR with collection ids ends, every
\* targeted mutation whose condition held has been attempted, whatever
\* happened to the ones before it.
C15_MutationsIndependent ==
    (hist.op \in {"prDone", "prFailed"} /\ HistUpd.path = "collections"
        /\ Len(HistUpd.attempted) > 0) =>
        \A m \in MutationPcs :
            Wanted(m, HistUpd.analysis, hist.task.syncState) => m \in Range(HistUpd.attempted)

\* C16: a PR whose analysis is the oracle's failure fallback gets no
\* release-notes, ADR or task item and exactly one doc_history item.
C16_DegradedAnalysisStillLogged ==
    (hist.op = "prDone" /\ HistUpd.analysis.degraded) =>
        /\ HistUpd.items["releaseNotes"] = 0
        /\ HistUpd.items["adrs"] = 0
        /\ HistUpd.items["engineeringTasks"] = 0
        /\ HistUpd.items["docHistory"] = 1

\* C17: the time the scheduler keeps for a connection, and compares with
\* the minimum interval, is the start of the connection's last cycle,
\* whether that cycle succeeded or failed.
C17_LastSyncTimeIsCycleStart ==
    (hist.op \in {"cycleEnd", "cycleFailed"} /\ hist.task.kind = "timer") =>
        lastSyncTimes[HistRepo] = hist.task.startedAt

\* C18: when the cycle of one connection fails inside runSyncCycle, the
\* records, scheduler entries and sync times of the other connections are
\* untouched by that step, and the loop goes on to the next connection of
\* its snapshot.
C18_FailureIsolated ==
    [][(hist'.op = "cycleFailed" /\ hist'.task.kind = "timer") =>
        LET r == hist'.task.repo
            tk == hist'.task IN
        /\ \A s \in (DOMAIN memoryStore) \ {r} :
              /\ memoryStore'[s] = memoryStore[s]
              /\ lastSyncTimes'[s] = lastSyncTimes[s]
              /\ merged'[s] = merged[s]
              /\ (s \in Range(repoConfigStore')) = (s \in Range(repoConfigStore))
        /\ tk.i < Len(tk.repos) =>
              \E t \in TaskIds :
                  /\ tasks'[t].kind = "timer"
                  /\ tasks'[t].pc = "docCheck"
                  /\ tasks'[t].repos = tk.repos
                  /\ tasks'[t].i = tk.i + 1]_vars

\* the first connection's cycle has failed and the second is being visited
C18_Witness ==
    /\ hist.op = "cycleFailed"
    /\ hist.task.kind = "timer"
    /\ hist.task.i = 1
    /\ Len(hist.task.repos) = 2
    /\ \E t \in TaskIds : tasks[t].pc = "docCheck" /\ tasks[t].i = 2

\* C19: a cycle begun by start() or by the timer visits only connections
\* whose autoSyncEnabled flag is true at that moment.
C19_TimerSkipsDisabled ==
    hist.op \in {"start", "timer"} =>
        \A t \in TaskIds :
            (tasks[t].kind = "timer" /\ tasks[t].pc = "docCheck" /\ tasks[t].startedAt = now) =>
                memoryStore[tasks[t].repo].autoSyncEnabled

\* the fields of a reply in the order collectionBlockId, collections[0].id,
\* id, result.id, collection.id
ShapeOrder(b) == <<b.collectionBlockId, b.collections0, b.id, b.result, b.collection>>

\* C20 as stated: a reply that contains collectionBlockId yields that value,
\* and every reply yields the first shape of the order that is present.
C20_FirstPresentShape ==
    hist.op = "extracted" =>
        LET b == hist.task.reply
            o == ShapeOrder(b) IN
        /\ b.collectionBlockId # Undef => hist.task.extracted = b.collectionBlockId
        /\ \A i \in 1..Len(o) :
              (o[i] # Undef /\ \A j \in 1..(i - 1) : o[j] = Undef) =>
                  hist.task.extracted = o[i]

\* C20: a reply whose collectionBlockId is a non-empty id yields that value
\* whatever other fields are present; every reply yields the first shape of
\* the order collectionBlockId, collections[0].id, id, result.id,
\* collection.id that holds a non-empty id, and a bare string yields itself.
C20_FirstNonEmptyShape ==
    hist.op = "extracted" =>
        LET b == hist.task.reply
            o == ShapeOrder(b) IN
        /\ Truthy(b.collectionBlockId) => hist.task.extracted = b.collectionBlockId
        /\ \A i \in 1..Len(o) :
              (Truthy(o[i]) /\ \A j \in 1..(i - 1) : ~Truthy(o[j])) =>
                  hist.task.extracted = o[i]
        /\ b.kind = "string" => hist.task.extracted = b.text

\* a reply with an empty collectionBlockId and two other ids: the id comes
\* from the earlier shape of the order
C20_Witness ==
    /\ hist.op = "extracted"
    /\ hist.task.reply.collectionBlockId = Null
    /\ Truthy(hist.task.reply.id)
    /\ Truthy(hist.task.reply.collection)
    /\ hist.task.reply.id # hist.task.reply.collection
    /\ hist.task.extracted = hist.task.reply.id

\* a reply in which no shape holds an id
NoShapeMatches(b) ==
    /\ b.kind # "none"
    /\ \A i \in 1..Len(ShapeOrder(b)) : ~Truthy(ShapeOrder(b)[i])
    /\ ~Truthy(b.first)
    /\ b.kind # "string"

\* C21: a collections_create reply that matches no shape makes the
\* materialisation fail (the request is answered 500 and the store is left
\* as it was), and no create*Collection ever hands a null id to
\* createEngineeringBrain.
C21_NoMatchIsHardError ==
    /\ \A t \in TaskIds : \A c \in CollectionKeys :
          tasks[t].got[c] = Undef \/ Truthy(tasks[t].got[c])
    /\ \A c \in CollectionKeys : hist.task.got[c] = Undef \/ Truthy(hist.task.got[c])
    /\ NoShapeMatches(hist.task.reply) =>
          /\ hist.op = "analyze500"
          /\ memoryStore[HistRepo] = hist.before
          /\ \A t \in TaskIds : tasks[t].kind = "none"

\* the reply to the third collections_create matched no shape
C21_Witness ==
    /\ hist.op = "analyze500"
    /\ NoShapeMatches(hist.task.reply)
    /\ hist.task.ci = 3
    /\ Truthy(hist.task.got["adrs"])

\* C23: when a materialisation fails after its documents_create succeeded,
\* the store holds a record with the id of the created document.
C23_PartialRecordPersisted ==
    (hist.op = "analyze500" /\ hist.task.created = 1) =>
        /\ memoryStore[HistRepo].present
        /\ memoryStore[HistRepo].documentId = hist.task.pending.documentId

\* the calls of one tool in a sequence of calls
RECURSIVE CallsOf(_, _)
CallsOf(calls, tool) ==
    IF Len(calls) = 0 THEN <<>>
    ELSE IF Head(calls)[1] = tool THEN <<Head(calls)[2]>> \o CallsOf(Tail(calls), tool)
         ELSE CallsOf(Tail(calls), tool)

\* C24: a materialisation that created the document and returned has
\* issued one documents_create, first of all, then the four
\* collections_create in the order release notes, ADRs, engineering tasks,
\* doc history, and four collectionItems_add, one per collection.
C24_MaterialisationCalls ==
    (hist.op = "analyzeGenerated" /\ hist.task.created = 1) =>
        LET calls == hist.task.calls IN
        /\ calls[1] = Call("documents_create", "")
        /\ Len(CallsOf(calls, "documents_create")) = 1
        /\ CallsOf(calls, "collections_create") = CollectionOrder
        /\ CallsOf(calls, "collectionItems_add") = CollectionOrder

\* C22: repository names are case-insensitive keys: the store never holds
\* two records whose names differ only in letter case.
C22_NoCaseDuplicates ==
    ~(memoryStore["o/r"].present /\ memoryStore["O/R"].present)

\* the answers that reject a Connection API request as a contract error
Rejections ==
    {"analyze400", "analyze401", "manual400", "manual401",
     "connected400", "connected401", "disconnect400", "disconnect401"}

\* C25: a request of /sync/analyze, /sync/manual, /sync/connected or
\* /sync/disconnect answered with 400 or 401 leaves the repository store,
\* the scheduler's connection map and the remote workspace unchanged, has
\* made no provider, oracle or workspace call, and leaves no work behind.
C25_RejectionTouchesNothing ==
    [][hist'.op \in Rejections =>
          /\ UNCHANGED <<memoryStore, repoConfigStore, lastSyncTimes, remoteDoc,
                         nextDocId, craftState>>
          /\ hist'.task.calls = <<>>
          /\ hist'.task.oracleCalls = 0
          /\ hist'.task.pc \in {"idle", "aSession", "mSession", "cSession", "dSession"}
          /\ \A t \in TaskIds : tasks'[t].kind = "none"]_vars

\* a disconnect of a connected repository was answered with 401
C25_Witness ==
    /\ hist.op = "disconnect401"
    /\ hist.before.present
    /\ memoryStore[HistRepo].present
    /\ HistRepo \in Range(repoConfigStore)

\* C26: POST /webhook/github dispatches to the change processor only for
\* bodies whose X-Hub-Signature-256 equals the HMAC-SHA256 of the body
\* under the configured secret, whether or not a secret is configured.
C26_DispatchOnlyVerified ==
    hist.op \in {"webhookDispatch", "webhookDone", "webhookFailed"} =>
        /\ hist.task.hook.secret # 0
        /\ hist.task.hook.signature = Hmac(hist.task.hook.body, hist.task.hook.secret)

\* C27: JSON repair is idempotent: whenever repair(x) parses as JSON,
\* repair(repair(x)) equals repair(x).
C27_RepairIdempotent ==
    (hist.op = "repairJSON" /\ Parses(hist.task.jsonStr)) =>
        RepairJSON(hist.task.jsonStr) = hist.task.jsonStr

\* C28: when a repaired reply parses, every required field of the record
\* is there, its confidence is the reply's confidence if it had one and 0
\* otherwise, and the confidence of every returned record lies in [0,1].
C28_DefaultsAndConfidence ==
    /\ hist.op = "parsed" =>
          /\ \A f \in {"overview", "architecture", "openQuestions", "engineeringTasks"} :
                hist.task.parsed[f] # Undef
          /\ hist.task.parsed.confidence =
                IF hist.task.parsed.replyConfidence # Undef
                THEN hist.task.parsed.replyConfidence ELSE 0
    /\ hist.op \in {"parsed", "parseFallback"} =>
          hist.task.parsed.confidence \in 0..One

\* C29: after a POST /sync/manual that processed PR n, the connection's
\* lastProcessedPR is at least n (as after a scheduler cycle).
C29_ManualSyncAdvancesCursor ==
    (/\ hist.op = "cycleEnd"
     /\ hist.task.kind = "manual"
     /\ hist.task.processedPRs # <<>>
     /\ memoryStore[HistRepo].present) =>
        PRNum(memoryStore[HistRepo].lastProcessedPR) >= SeqMax(hist.task.processedPRs)

\* the blocks of the document before the call that are still in it and
\* match sectionToUpdate
Surviving(tk) ==
    SelectSeq(FindBlocksByPattern(tk.doc, "Tech Stack"), LAMBDA b : b.id <= MaxBlocks)

\* C30: after the Tech Stack upsert, with no workspace call failing, the
\* document holds newContent: in a block matching sectionToUpdate if one
\* is left after the deletions, otherwise appended at the end.
C30_UpsertWritesContent ==
    (hist.op = "mainDocUpdated" /\ ~hist.task.failed) =>
        LET d == hist.task.doc IN
        IF Surviving(hist.task) # <<>>
        THEN \E i \in 1..Len(Surviving(hist.task)) :
                Surviving(hist.task)[i].content = "new"
        ELSE d # <<>> /\ d[Len(d)].content = "new"

\* C31: two interleaved POST /sync/analyze requests for one repository
\* never create two documents: requests that have issued documents_create
\* hold the same document id.
C31_OneDocumentPerTitle ==
    \A t, u \in TaskIds :
        (/\ tasks[t].created = 1
         /\ tasks[u].created = 1
         /\ tasks[t].repo = tasks[u].repo) =>
            tasks[t].pending.documentId = tasks[u].pending.documentId

\* C32: when two cycles for one repository overlap, no merged PR is handed
\* to the change processor by both of them.
C32_OverlapHandsEachPROnce ==
    \A t, u \in TaskIds :
        (t # u /\ InCheck(t) /\ InCheck(u) /\ tasks[t].repo = tasks[u].repo) =>
            Range(Handed(tasks[t])) \cap Range(Handed(tasks[u])) = {}

\* C33: a connection removed while a cycle for it is in flight is not
\* re-created by that cycle: when the cycle's cursor write completes on a
\* store that no longer has the record, the store still has none after it.
C33_CycleDoesNotRecreate ==
    (hist.op = "cycleEnd" /\ hist.task.pc = "cursorWrite" /\ ~hist.before.present) =>
        ~memoryStore[HistRepo].present

\* C34: reconciliation deletes a connection only when the workspace probe
\* positively reports the document absent: the probe returned the list of
\* documents and the list holds no document under the title.
C34_DeleteOnlyWhenAbsent ==
    hist.op = "reconcileAbsent" =>
        hist.task.reply.kind = "list" /\ remoteDoc[HistRepo] = 0

\* C35: without a database the store is write-through: when a set,
\* updateMetadata, delete or clear call returns, the JSON file holds
\* exactly the records of the in-memory index.
C35_FileEqualsIndex ==
    hist.op = "storeReturn" => storageFile = memoryStore

\* C36: between requests the repositories the sync service monitors are
\* exactly the repositories whose store record has a credential and a
\* workspace endpoint.
C36_MonitoredEqualsStored ==
    Idle => Range(repoConfigStore) =
                {r \in DOMAIN memoryStore :
                    memoryStore[r].present /\ memoryStore[r].githubToken # 0}

\* the slots in which a step began a cycle
NewCycles == {t \in TaskIds : tasks[t].kind = "none" /\ tasks'[t].kind # "none"}

\* C39: under any sequence of start() and stop() calls at most one timer is
\* active; a start() that acts finds the service stopped, installs the
\* only timer and runs one cycle at once (the first start() with a
\* repository to monitor puts it in flight); the timer begins a cycle only
\* on a running service, and a stopped service has no timer.
C39_StartStopDiscipline ==
    [][/\ timers' <= 1
       /\ ~isRunning' => timers' = 0
       /\ hist'.op = "start" =>
             /\ ~isRunning
             /\ timers' = 1
             /\ Cardinality(NewCycles) <= 1
             /\ (Len(repoConfigStore) > 0 /\ \A r \in Repos : lastSyncTimes[r] = Undef)
                    => Cardinality(NewCycles) = 1
       /\ hist'.op = "timer" => isRunning
       /\ hist'.op = "stop" => NewCycles = {}]_vars

\* a service started again after a stop, with a cycle of the first run
\* behind it
C39_Witness ==
    /\ hist.op = "start"
    /\ \E r \in Repos : Truthy(lastSyncTimes[r])
    /\ timers = 1

\* C40: GET /sync/connected and DELETE /sync/disconnect decide ownership
\* the same way: a session is shown a record exactly when it may
\* disconnect it, also a session of a later login of the same user.
C40_OwnershipDecidedAlike ==
    (hist.op \in {"connectedListed", "disconnect", "disconnect403"} /\ hist.before.present) =>
        (Listed(hist.before, hist.task.session) <=> Owns(hist.before, hist.task.session))

\* C37: every direct commit made after the connection's first cycle is
\* eventually returned by the commit listing of some cycle, also a commit
\* dated between a cycle's listing and that cycle's lastSyncedAt write.
C37_CommitEventuallyListed ==
    \A c \in 1..MaxNow :
        (hist.op = "commit" /\ hist.date = c /\
            \A r \in Repos : Truthy(memoryStore[r].lastSyncedAt)) ~>
            (\E t \in TaskIds : tasks[t].pc = "commitWork" /\ c \in tasks[t].listed)

\* C38: every merged pull request is eventually handed to the change
\* processor by some cycle, when cycles keep running and processing
\* succeeds; also one merged after a higher-numbered pull request was
\* processed.
C38_MergedEventuallyHanded ==
    \A n \in 1..MaxPR :
        (hist.op = "merge" /\ hist.pr = n) ~>
            (\E t \in TaskIds : n \in Range(Handed(tasks[t])))

====
